---- MODULE Spec2Model ----
(***************************************************************************)
(* libusb-1.0 (early): the asynchronous transfer engine of libusb/io.c and *)
(* the device / handle lifecycle of the core file.                         *)
(*                                                                         *)
(* The transfer engine is driven by one thread at a time (the event loop   *)
(* is not internally locked), so its operations are atomic actions.  The   *)
(* OS backend (usbi_backend->...) is not part of these sources; it is      *)
(* modelled as the environment: it accepts or rejects submissions and      *)
(* cancels, and during handle_events it delinks a transfer from the        *)
(* in-flight list and reports its terminal outcome exactly once.           *)
(***************************************************************************)
EXTENDS Integers, Sequences, FiniteSets, Bags, TLC

(***************************************************************************)
(* Bounds of the model.                                                    *)
(***************************************************************************)
NumTransfers == 1        \* transfer objects of the engine specification
MaxClockTicks == 3       \* the clock stops this many ticks after its start

(***************************************************************************)
(* Program constants.                                                      *)
(***************************************************************************)
LIBUSB_CONTROL_SETUP_SIZE == 8
NSEC_PER_SEC == 1000000000
USEC_PER_SEC == NSEC_PER_SEC \div 1000
POLL_TV_SEC == 2
ENOMEM == 12

NoTransfer == 0

TIMED_OUT == "USBI_TRANSFER_TIMED_OUT"
SYNC_CANCELLED == "USBI_TRANSFER_SYNC_CANCELLED"
SHORT_NOT_OK == "LIBUSB_TRANSFER_SHORT_NOT_OK"
FREE_TRANSFER == "LIBUSB_TRANSFER_FREE_TRANSFER"

VARIABLES
    xfer,               \* transfer object -> struct usbi_transfer (with pub)
    flying_transfers,   \* the in-flight list, head first
    now,                \* CLOCK_MONOTONIC as a timespec <<sec, nsec>>
    urb,                \* backend: "none" | "pending" | "discarding"
    freed,              \* transfer object -> its allocation was freed
    sync,               \* the cancel_transfer_sync call in progress, if any
    pollfds,            \* the poll-FD registry, head first
    notifiers,          \* fd_added_cb and fd_removed_cb, "NULL" if not set
    hist                \* what an observer of the engine has seen: per
                        \* submission the callbacks, silent completions,
                        \* frees, cancel requests and reports; the last
                        \* return value; whether the last call swept and
                        \* whether the backend reaped a transfer in it; what
                        \* the backend saw if the last call was a
                        \* synchronous cancel; what poll_io did if the last
                        \* call ran it; the descriptors added and not
                        \* yet removed; what the last call on the poll-FD
                        \* registry was given, found and notified

iovars == <<xfer, flying_transfers, now, urb, freed, sync, pollfds, notifiers, hist>>

VARIABLES
    dev,                \* device object -> struct libusb_device
    usb_devs,           \* the device registry, head first
    usbi_open_devs,     \* the handle table, head first
    hdl,                \* handle object -> struct libusb_device_handle
    thr,                \* thread -> where it is in the API call it runs,
                        \* and the locals of that call
    crashed             \* the process died on an access to freed memory

devvars == <<dev, usb_devs, usbi_open_devs, hdl, thr, crashed>>

VARIABLES
    build,              \* what the build fixes: the width of unsigned long,
                        \* what an int shift by 32 or more yields, and the
                        \* byte order of the host
    ifobs               \* what an observer of the interface calls has seen:
                        \* the last call, whether it reached the backend, its
                        \* return value, and per handle the interfaces whose
                        \* last backend-accepted operation was a claim

ifvars == <<build, ifobs>>

vars == <<iovars, devvars, ifvars>>

(***************************************************************************)
(* Time: struct timespec / struct timeval as pairs.                        *)
(***************************************************************************)
TIMESPEC_TO_TIMEVAL(ts) == <<ts[1], ts[2] \div 1000>>

timerisset(tv) == tv[1] # 0 \/ tv[2] # 0

timerclear == <<0, 0>>

\* timercmp(a, b, >)
timer_gt(a, b) == a[1] > b[1] \/ (a[1] = b[1] /\ a[2] > b[2])

\* timercmp(a, b, <)
timer_lt(a, b) == timer_gt(b, a)

\* timercmp(a, b, >=), which the macro computes as !(a < b)
timer_ge(a, b) == ~timer_lt(a, b)

\* timersub(a, b, result)
timersub(a, b) ==
    IF a[2] - b[2] < 0
    THEN <<a[1] - b[1] - 1, a[2] - b[2] + USEC_PER_SEC>>
    ELSE <<a[1] - b[1], a[2] - b[2]>>


(***************************************************************************)
(* The engine state as one record, so that each C function is an operator  *)
(* from state to state and nested calls compose.                           *)
(***************************************************************************)
State ==
    [xfer |-> xfer, flying |-> flying_transfers, now |-> now, urb |-> urb,
     freed |-> freed, sync |-> sync, pollfds |-> pollfds, notifiers |-> notifiers,
     hist |-> hist]

Transfers == DOMAIN xfer

\* __init_transfer: memset(transfer, 0, sizeof(*transfer))
\* transfer->buffer of a zeroed transfer: NULL
NoBuffer == << >>

ZeroTransfer ==
    [timeout |-> 0, callback |-> FALSE, flags |-> {}, endpoint_type |-> "control",
     length |-> 0, status |-> "COMPLETED", actual_length |-> 0,
     deadline |-> timerclear, iflags |-> {}, transferred |-> 0, buffer |-> NoBuffer]

\* nothing seen yet of a transfer object; written is the buffer as the
\* application wrote it before it submitted
IdleSubmission ==
    [callbacks |-> 0, skipped |-> 0, silent |-> 0, frees |-> 0, tocancels |-> 0,
     report |-> "idle", status |-> "none", written |-> NoBuffer]

\* the value the API call returns to its caller
Return(S, r) == [S EXCEPT !.hist.ret = r]

calculate_timeout(S, t) ==
    LET timeout == S.xfer[t].timeout
        sec == S.now[1] + timeout \div 1000
        nsec == S.now[2] + (timeout % 1000) * 1000000
        current_time == IF nsec > NSEC_PER_SEC
                        THEN <<sec + 1, nsec - NSEC_PER_SEC>>
                        ELSE <<sec, nsec>>
    IN  IF timeout = 0
        THEN S
        ELSE [S EXCEPT !.xfer[t].deadline = TIMESPEC_TO_TIMEVAL(current_time)]

InsertBefore(list, i, t) ==
    SubSeq(list, 1, i - 1) \o <<t>> \o SubSeq(list, i, Len(list))

\* an insertion that always appends at the tail
add_to_flying_list_tail(S, t) == [S EXCEPT !.flying = Append(S.flying, t)]

add_to_flying_list(S, t) ==
    LET list == S.flying
        timeout == S.xfer[t].deadline
        later == {i \in 1..Len(list) :
                    LET cur_tv == S.xfer[list[i]].deadline
                    IN  ~timerisset(cur_tv) \/ timer_gt(cur_tv, timeout)}
        first == CHOOSE i \in later : \A j \in later : i <= j
    IN  IF list = <<>> THEN [S EXCEPT !.flying = <<t>>]
        ELSE IF ~timerisset(timeout) THEN [S EXCEPT !.flying = Append(list, t)]
        ELSE IF later # {} THEN [S EXCEPT !.flying = InsertBefore(list, first, t)]
        ELSE [S EXCEPT !.flying = Append(list, t)]

\* usbi_backend->submit_transfer: r is the backend's answer
backend_submit_transfer(S, t, r) ==
    IF r < 0
    THEN S
    ELSE [S EXCEPT !.urb[t] = "pending",
                   !.hist.submission[t] =
                       [IdleSubmission EXCEPT !.report = "none",
                                              !.written = S.hist.submission[t].written]]

\* a submit that links the transfer before it asks the backend
submit_transfer_links_first(S, t, r) ==
    LET B == backend_submit_transfer(add_to_flying_list(S, t), t, r)
    IN  IF r < 0 THEN Return(B, r) ELSE Return(B, 0)

submit_transfer(S, t, r) ==
    LET B == backend_submit_transfer(S, t, r)
    IN  IF r < 0
        THEN Return(B, r)
        ELSE Return(add_to_flying_list(B, t), 0)

\* a uint16_t read from, and written to, the two bytes at offset off of the
\* buffer, in the byte order of the host
Load16(buf, off) ==
    IF build.endian = "little"
    THEN buf[off + 1] + 256 * buf[off + 2]
    ELSE 256 * buf[off + 1] + buf[off + 2]

Store16(buf, off, v) ==
    IF build.endian = "little"
    THEN [buf EXCEPT ![off + 1] = v % 256, ![off + 2] = v \div 256]
    ELSE [buf EXCEPT ![off + 1] = v \div 256, ![off + 2] = v % 256]

bswap_16(x) == (x % 256) * 256 + (x \div 256)

cpu_to_le16(x) == IF build.endian = "little" THEN x ELSE bswap_16(x)

\* struct libusb_control_setup: bmRequestType and bRequest at offsets 0 and 1,
\* then wValue, wIndex and wLength
OFFSET_wValue == 2
OFFSET_wIndex == 4
OFFSET_wLength == 6

\* a submit that forgets to convert wLength
convert_setup_skips_wLength(buf) ==
    LET b1 == Store16(buf, OFFSET_wValue, cpu_to_le16(Load16(buf, OFFSET_wValue)))
    IN  Store16(b1, OFFSET_wIndex, cpu_to_le16(Load16(b1, OFFSET_wIndex)))

\* setup->f = cpu_to_le16(setup->f) for the three 16-bit fields
convert_setup(buf) ==
    LET b1 == Store16(buf, OFFSET_wValue, cpu_to_le16(Load16(buf, OFFSET_wValue)))
        b2 == Store16(b1, OFFSET_wIndex, cpu_to_le16(Load16(b1, OFFSET_wIndex)))
    IN  Store16(b2, OFFSET_wLength, cpu_to_le16(Load16(b2, OFFSET_wLength)))

\* no libusb_submit_transfer ran in the last call
NoSubmit == [t |-> NoTransfer, r |-> 0, ret |-> 0]

\* what the last libusb_submit_transfer was given and what it returned
SubmittedBy(S, t, r) == [S EXCEPT !.hist.submitted = [t |-> t, r |-> r, ret |-> S.hist.ret]]

\* a submit that leaves the byte count of the previous submission in place
libusb_submit_transfer_keeps_count(S, t, r) ==
    LET Z == calculate_timeout(S, t)
        C == IF Z.xfer[t].endpoint_type = "control"
             THEN [Z EXCEPT !.xfer[t].buffer = convert_setup(@)]
             ELSE Z
    IN  SubmittedBy(submit_transfer(C, t, r), t, r)

libusb_submit_transfer(S, t, r) ==
    LET Z == calculate_timeout([S EXCEPT !.xfer[t].transferred = 0], t)
        C == IF Z.xfer[t].endpoint_type = "control"
             THEN [Z EXCEPT !.xfer[t].buffer = convert_setup(@)]
             ELSE Z
    IN  SubmittedBy(submit_transfer(C, t, r), t, r)

\* usbi_backend->cancel_transfer: r is the backend's answer
backend_cancel_transfer(S, t, r) ==
    IF r < 0 THEN S ELSE [S EXCEPT !.urb[t] = "discarding"]

libusb_cancel_transfer(S, t, r) ==
    Return(backend_cancel_transfer(S, t, r), r)

\* free(itransfer): what freed memory holds is not part of the state
libusb_free_transfer(S, t) == [S EXCEPT !.freed[t] = TRUE, !.xfer[t] = ZeroTransfer]

\* malloc and __init_transfer: a fresh, zeroed transfer object
libusb_alloc_transfer(S, t) ==
    [S EXCEPT !.freed[t] = FALSE, !.xfer[t] = ZeroTransfer,
              !.hist.submission[t] = IdleSubmission]

\* what the user's callback does with the transfer it is handed
user_callback(S, t, act) ==
    LET C == [S EXCEPT !.hist.submission[t].callbacks = @ + 1]
    IN  IF act.resubmit THEN libusb_submit_transfer(C, t, act.r) ELSE C

\* a completion handler that compares the byte count with the whole length,
\* setup packet included
completion_counts_setup(S, t, status, act) ==
    LET transfer == S.xfer[t]
        st == IF status = "COMPLETED" /\ SHORT_NOT_OK \in transfer.flags
                 /\ transfer.length # transfer.transferred
              THEN "ERROR" ELSE status
        P == [S EXCEPT !.xfer[t].status = st,
                       !.xfer[t].actual_length = transfer.transferred,
                       !.hist.submission[t].status = st]
        C == IF transfer.callback
             THEN user_callback(P, t, act)
             ELSE [P EXCEPT !.hist.submission[t].skipped = @ + 1]
    IN  IF status = "SILENT_COMPLETION"
        THEN [S EXCEPT !.hist.submission[t].silent = @ + 1]
        ELSE IF FREE_TRANSFER \in transfer.flags
             THEN libusb_free_transfer([C EXCEPT !.hist.submission[t].frees = @ + 1], t)
             ELSE C

\* a completion handler in which FREE_TRANSFER replaces the callback by the free
completion_free_replaces_callback(S, t, status, act) ==
    LET transfer == S.xfer[t]
        P == [S EXCEPT !.xfer[t].status = status,
                       !.xfer[t].actual_length = transfer.transferred,
                       !.hist.submission[t].status = status]
    IN  IF status = "SILENT_COMPLETION"
        THEN [S EXCEPT !.hist.submission[t].silent = @ + 1]
        ELSE IF FREE_TRANSFER \in transfer.flags
             THEN libusb_free_transfer([P EXCEPT !.hist.submission[t].frees = @ + 1], t)
             ELSE IF transfer.callback
                  THEN user_callback(P, t, act)
                  ELSE [P EXCEPT !.hist.submission[t].skipped = @ + 1]

\* a completion handler that reports a timeout whenever the latch is set
completion_reports_latch(S, t, status, act) ==
    LET transfer == S.xfer[t]
        rqlen == IF transfer.endpoint_type = "control"
                 THEN transfer.length - LIBUSB_CONTROL_SETUP_SIZE
                 ELSE transfer.length
        st == IF TIMED_OUT \in transfer.iflags THEN "TIMED_OUT"
              ELSE IF status = "COMPLETED" /\ SHORT_NOT_OK \in transfer.flags
                      /\ rqlen # transfer.transferred
                   THEN "ERROR" ELSE status
        P == [S EXCEPT !.xfer[t].status = st,
                       !.xfer[t].actual_length = transfer.transferred,
                       !.hist.submission[t].status = st]
        C == IF transfer.callback
             THEN user_callback(P, t, act)
             ELSE [P EXCEPT !.hist.submission[t].skipped = @ + 1]
    IN  IF status = "SILENT_COMPLETION"
        THEN [S EXCEPT !.hist.submission[t].silent = @ + 1]
        ELSE IF FREE_TRANSFER \in transfer.flags
             THEN libusb_free_transfer([C EXCEPT !.hist.submission[t].frees = @ + 1], t)
             ELSE C

usbi_handle_transfer_completion(S, t, status, act) ==
    LET transfer == S.xfer[t]
        rqlen == IF transfer.endpoint_type = "control"
                 THEN transfer.length - LIBUSB_CONTROL_SETUP_SIZE
                 ELSE transfer.length
        st == IF status = "COMPLETED" /\ SHORT_NOT_OK \in transfer.flags
                 /\ rqlen # transfer.transferred
              THEN "ERROR" ELSE status
        P == [S EXCEPT !.xfer[t].status = st,
                       !.xfer[t].actual_length = transfer.transferred,
                       !.hist.submission[t].status = st]
        C == IF transfer.callback
             THEN user_callback(P, t, act)
             ELSE [P EXCEPT !.hist.submission[t].skipped = @ + 1]
    IN  IF status = "SILENT_COMPLETION"
        THEN [S EXCEPT !.hist.submission[t].silent = @ + 1]
        ELSE IF FREE_TRANSFER \in transfer.flags
             THEN libusb_free_transfer([C EXCEPT !.hist.submission[t].frees = @ + 1], t)
             ELSE C

\* a cancellation handler that looks at the timeout latch first
cancellation_timeout_first(S, t, act) ==
    IF TIMED_OUT \in S.xfer[t].iflags
    THEN usbi_handle_transfer_completion(S, t, "TIMED_OUT", act)
    ELSE IF SYNC_CANCELLED \in S.xfer[t].iflags
         THEN usbi_handle_transfer_completion(
                  [S EXCEPT !.xfer[t].iflags = @ \ {SYNC_CANCELLED}], t,
                  "SILENT_COMPLETION", act)
         ELSE usbi_handle_transfer_completion(S, t, "CANCELLED", act)

usbi_handle_transfer_cancellation(S, t, act) ==
    IF SYNC_CANCELLED \in S.xfer[t].iflags
    THEN usbi_handle_transfer_completion(
             [S EXCEPT !.xfer[t].iflags = @ \ {SYNC_CANCELLED}], t,
             "SILENT_COMPLETION", act)
    ELSE IF TIMED_OUT \in S.xfer[t].iflags
         THEN usbi_handle_transfer_completion(S, t, "TIMED_OUT", act)
         ELSE usbi_handle_transfer_completion(S, t, "CANCELLED", act)

\* a timeout handler that requests the cancel and forgets the latch
handle_timeout_no_latch(S, t, r) ==
    LET C == libusb_cancel_transfer(S, t, r)
    IN  [C EXCEPT !.hist.submission[t].tocancels = @ + 1]

handle_timeout(S, t, r) ==
    LET L == [S EXCEPT !.xfer[t].iflags = @ \cup {TIMED_OUT}]
        C == libusb_cancel_transfer(L, t, r)
    IN  [C EXCEPT !.hist.submission[t].tocancels = @ + 1]

RECURSIVE sweep(_, _, _, _)
sweep(S, i, systime, rs) ==
    IF i > Len(S.flying) THEN S
    ELSE LET t == S.flying[i]
             cur_tv == S.xfer[t].deadline
         IN  IF ~timerisset(cur_tv) THEN S
             ELSE IF TIMED_OUT \in S.xfer[t].iflags
                  THEN sweep(S, i + 1, systime, rs)
                  ELSE IF timer_gt(cur_tv, systime) THEN S
                       ELSE sweep(handle_timeout(S, t, rs[t]), i + 1, systime, rs)

handle_timeouts(S, rs) ==
    LET H == [S EXCEPT !.hist.swept = TRUE]
    IN  IF S.flying = <<>>
        THEN Return(H, 0)
        ELSE Return(sweep(H, 1, TIMESPEC_TO_TIMEVAL(S.now), rs), 0)

\* a deadline lookup that reports an expired deadline as no deadline
get_next_timeout_drops_expired(S) ==
    LET pending == {i \in 1..Len(S.flying) : TIMED_OUT \notin S.xfer[S.flying[i]].iflags}
        first == CHOOSE i \in pending : \A j \in pending : i <= j
        next_timeout == S.xfer[S.flying[first]].deadline
        cur_tv == TIMESPEC_TO_TIMEVAL(S.now)
    IN  IF S.flying = <<>> THEN [r |-> 0, tv |-> timerclear]
        ELSE IF pending = {} THEN [r |-> 0, tv |-> timerclear]
        ELSE IF ~timerisset(next_timeout) THEN [r |-> 0, tv |-> timerclear]
        ELSE IF timer_ge(cur_tv, next_timeout) THEN [r |-> 0, tv |-> timerclear]
        ELSE [r |-> 1, tv |-> timersub(next_timeout, cur_tv)]

\* a deadline lookup that does not skip the latched transfers
get_next_timeout_counts_latched(S) ==
    LET next_timeout == S.xfer[S.flying[1]].deadline
        cur_tv == TIMESPEC_TO_TIMEVAL(S.now)
    IN  IF S.flying = <<>> THEN [r |-> 0, tv |-> timerclear]
        ELSE IF ~timerisset(next_timeout) THEN [r |-> 0, tv |-> timerclear]
        ELSE IF timer_ge(cur_tv, next_timeout) THEN [r |-> 1, tv |-> timerclear]
        ELSE [r |-> 1, tv |-> timersub(next_timeout, cur_tv)]

libusb_get_next_timeout(S) ==
    LET pending == {i \in 1..Len(S.flying) : TIMED_OUT \notin S.xfer[S.flying[i]].iflags}
        first == CHOOSE i \in pending : \A j \in pending : i <= j
        next_timeout == S.xfer[S.flying[first]].deadline
        cur_tv == TIMESPEC_TO_TIMEVAL(S.now)
    IN  IF S.flying = <<>> THEN [r |-> 0, tv |-> timerclear]
        ELSE IF pending = {} THEN [r |-> 0, tv |-> timerclear]
        ELSE IF ~timerisset(next_timeout) THEN [r |-> 0, tv |-> timerclear]
        ELSE IF timer_ge(cur_tv, next_timeout) THEN [r |-> 1, tv |-> timerclear]
        ELSE [r |-> 1, tv |-> timersub(next_timeout, cur_tv)]

\* the monotonic clock after select() slept for the whole of tv
ClockAfter(ts, tv) ==
    LET nsec == ts[2] + tv[2] * 1000
    IN  IF nsec >= NSEC_PER_SEC
        THEN <<ts[1] + tv[1] + 1, nsec - NSEC_PER_SEC>>
        ELSE <<ts[1] + tv[1], nsec>>

Remove(list, t) == SelectSeq(list, LAMBDA x : x # t)

\* the backend reaps one URB: it delinks the transfer, stores the byte count
\* and reports completion or cancellation to the core
backend_reap(S, e) ==
    LET D == [S EXCEPT !.flying = Remove(@, e.t), !.urb[e.t] = "none",
                       !.xfer[e.t].transferred = e.transferred,
                       !.hist.submission[e.t].report = e.kind,
                       !.hist.reaped = TRUE]
    IN  IF e.kind = "cancellation"
        THEN usbi_handle_transfer_cancellation(D, e.t, e.act)
        ELSE usbi_handle_transfer_completion(D, e.t, e.status, e.act)

RECURSIVE backend_handle_events(_, _)
backend_handle_events(S, events) ==
    IF events = <<>> THEN S
    ELSE backend_handle_events(backend_reap(S, Head(events)), Tail(events))

select_timeout(S, tv) ==
    LET next == libusb_get_next_timeout(S)
    IN  IF next.r # 0 /\ timer_lt(next.tv, tv) THEN next.tv ELSE tv

POLLIN == "POLLIN"
POLLOUT == "POLLOUT"

\* the loop of poll_io over the registry from its i-th entry on: F holds
\* readfds, writefds (an empty set is passed to select() as NULL) and maxfd
RECURSIVE fd_sets(_, _, _)
fd_sets(list, i, F) ==
    IF i > Len(list) THEN F
    ELSE LET pollfd == list[i]
             R == IF POLLIN \in pollfd.events THEN F.readfds \cup {pollfd.fd} ELSE F.readfds
             W == IF POLLOUT \in pollfd.events THEN F.writefds \cup {pollfd.fd} ELSE F.writefds
             M == IF pollfd.fd > F.maxfd THEN pollfd.fd ELSE F.maxfd
         IN  fd_sets(list, i + 1, [readfds |-> R, writefds |-> W, maxfd |-> M])

\* poll_io has not run
NoPoll ==
    [entered |-> FALSE, user_tv |-> timerclear, select |-> "none",
     select_timeout |-> timerclear, nfds |-> 0, readfds |-> {}, writefds |-> {},
     handled |-> FALSE, her |-> 0]

\* a poll_io that hands the caller's timeout to select() whatever the deadline
poll_io_waits_user_tv(S, tv, sel, events, her, rs) ==
    LET next == libusb_get_next_timeout(S)
        F == fd_sets(S.pollfds, 1, [readfds |-> {}, writefds |-> {}, maxfd |-> 0])
        P == [S EXCEPT !.hist.poll.entered = TRUE, !.hist.poll.user_tv = tv]
        C == [P EXCEPT !.hist.poll.select = sel,
                       !.hist.poll.select_timeout = tv,
                       !.hist.poll.nfds = F.maxfd + 1,
                       !.hist.poll.readfds = F.readfds,
                       !.hist.poll.writefds = F.writefds]
        E == backend_handle_events(
                 [C EXCEPT !.hist.poll.handled = TRUE, !.hist.poll.her = her], events)
    IN  IF next.r # 0 /\ ~timerisset(next.tv) THEN handle_timeouts(P, rs)
        ELSE IF sel = "timeout"
             THEN handle_timeouts([C EXCEPT !.now = ClockAfter(@, tv)], rs)
        ELSE IF sel = "EINTR" THEN Return(C, 0)
        ELSE IF sel = "error" THEN Return(C, -1)
        ELSE IF her < 0 THEN Return(E, her)
        ELSE handle_timeouts(E, rs)

\* a poll_io that sweeps after an interrupted select()
poll_io_sweeps_when_interrupted(S, tv, sel, events, her, rs) ==
    LET next == libusb_get_next_timeout(S)
        F == fd_sets(S.pollfds, 1, [readfds |-> {}, writefds |-> {}, maxfd |-> 0])
        P == [S EXCEPT !.hist.poll.entered = TRUE, !.hist.poll.user_tv = tv]
        C == [P EXCEPT !.hist.poll.select = sel,
                       !.hist.poll.select_timeout = select_timeout(S, tv),
                       !.hist.poll.nfds = F.maxfd + 1,
                       !.hist.poll.readfds = F.readfds,
                       !.hist.poll.writefds = F.writefds]
        E == backend_handle_events(
                 [C EXCEPT !.hist.poll.handled = TRUE, !.hist.poll.her = her], events)
    IN  IF next.r # 0 /\ ~timerisset(next.tv) THEN handle_timeouts(P, rs)
        ELSE IF sel = "timeout"
             THEN handle_timeouts(
                      [C EXCEPT !.now = ClockAfter(@, select_timeout(S, tv))], rs)
        ELSE IF sel = "EINTR" THEN handle_timeouts(C, rs)
        ELSE IF sel = "error" THEN Return(C, -1)
        ELSE IF her < 0 THEN Return(E, her)
        ELSE handle_timeouts(E, rs)

\* in: tv the caller's timeout; sel the outcome of select(); events what the
\* backend reaps in handle_events and her its return value; rs the backend's
\* answers to the cancel requests of the sweep
poll_io(S, tv, sel, events, her, rs) ==
    LET next == libusb_get_next_timeout(S)
        F == fd_sets(S.pollfds, 1, [readfds |-> {}, writefds |-> {}, maxfd |-> 0])
        P == [S EXCEPT !.hist.poll.entered = TRUE, !.hist.poll.user_tv = tv]
        C == [P EXCEPT !.hist.poll.select = sel,
                       !.hist.poll.select_timeout = select_timeout(S, tv),
                       !.hist.poll.nfds = F.maxfd + 1,
                       !.hist.poll.readfds = F.readfds,
                       !.hist.poll.writefds = F.writefds]
        E == backend_handle_events(
                 [C EXCEPT !.hist.poll.handled = TRUE, !.hist.poll.her = her], events)
    IN  IF next.r # 0 /\ ~timerisset(next.tv) THEN handle_timeouts(P, rs)
        ELSE IF sel = "timeout"
             THEN handle_timeouts(
                      [C EXCEPT !.now = ClockAfter(@, select_timeout(S, tv))], rs)
        ELSE IF sel = "EINTR" THEN Return(C, 0)
        ELSE IF sel = "error" THEN Return(C, -1)
        ELSE IF her < 0 THEN Return(E, her)
        ELSE handle_timeouts(E, rs)

\* a notifier that is not set
NULL == "NULL"

\* libusb_set_pollfd_notifiers
libusb_set_pollfd_notifiers(S, added_cb, removed_cb) ==
    [S EXCEPT !.notifiers = [fd_added_cb |-> added_cb, fd_removed_cb |-> removed_cb]]

NoFdCall ==
    [op |-> "none", fd |-> 0, events |-> {}, present |-> FALSE, before |-> <<>>,
     notified |-> <<>>, list |-> <<>>, null |-> FALSE]

\* a call on the registry: what it was given; for a remove, whether the
\* descriptor is among those added and not yet removed, and the registry the
\* call found
FdCall(S, op, fd, events) ==
    [S EXCEPT !.hist.fdcall =
        [NoFdCall EXCEPT !.op = op, !.fd = fd, !.events = events,
                         !.present = op = "remove" /\ BagIn(fd, S.hist.watched),
                         !.before = IF op = "remove" THEN S.pollfds ELSE <<>>]]

\* the call cb(args) of a notifier
Notify(S, cb, args) ==
    [S EXCEPT !.hist.fdcall.notified = Append(@, [cb |-> cb, args |-> args])]

\* usbi_add_pollfd: ok is whether malloc succeeded
usbi_add_pollfd(S, fd, events, ok) ==
    LET C == FdCall(S, "add", fd, events)
        A == [C EXCEPT !.pollfds = <<[fd |-> fd, events |-> events]>> \o @,
                       !.hist.watched = @ (+) SetToBag({fd})]
    IN  IF ~ok THEN Return(S, -ENOMEM)
        ELSE IF A.notifiers.fd_added_cb # NULL
             THEN Return(Notify(A, A.notifiers.fd_added_cb, <<fd, events>>), 0)
             ELSE Return(A, 0)

\* a remove that takes every entry with this fd out of the registry
usbi_remove_pollfd_every_entry(S, fd) ==
    LET C == [FdCall(S, "remove", fd, {}) EXCEPT !.hist.watched = @ (-) SetToBag({fd})]
        found == {i \in 1..Len(S.pollfds) : S.pollfds[i].fd = fd}
        D == [C EXCEPT !.pollfds = SelectSeq(@, LAMBDA pollfd : pollfd.fd # fd)]
    IN  IF found = {} THEN C
        ELSE IF D.notifiers.fd_removed_cb # NULL
             THEN Notify(D, D.notifiers.fd_removed_cb, <<fd>>)
             ELSE D

\* usbi_remove_pollfd: the first entry of the registry with this fd
usbi_remove_pollfd(S, fd) ==
    LET C == [FdCall(S, "remove", fd, {}) EXCEPT !.hist.watched = @ (-) SetToBag({fd})]
        found == {i \in 1..Len(S.pollfds) : S.pollfds[i].fd = fd}
        first == CHOOSE i \in found : \A j \in found : i <= j
        D == [C EXCEPT !.pollfds = SubSeq(@, 1, first - 1) \o SubSeq(@, first + 1, Len(@))]
    IN  IF found = {} THEN C
        ELSE IF D.notifiers.fd_removed_cb # NULL
             THEN Notify(D, D.notifiers.fd_removed_cb, <<fd>>)
             ELSE D

\* libusb_get_pollfds: the entries of the registry in list order (the NULL
\* that ends the array is left out), or NULL if calloc failed
libusb_get_pollfds(S, ok) ==
    LET C == FdCall(S, "get", 0, {})
    IN  IF ~ok THEN [C EXCEPT !.hist.fdcall.null = TRUE]
        ELSE [C EXCEPT !.hist.fdcall.list = [i \in 1..Len(S.pollfds) |-> S.pollfds[i]]]

libusb_poll_timeout(S, tv, sel, events, her, rs) == poll_io(S, tv, sel, events, her, rs)

libusb_poll(S, sel, events, her, rs) == poll_io(S, <<POLL_TV_SEC, 0>>, sel, events, her, rs)

\* what the backend saw when libusb_cancel_transfer_sync asked it to cancel:
\* the transfer, its internal flags at that moment, and the backend's answer
NoAsk == [t |-> NoTransfer, iflags |-> {}, r |-> 0]

AskedBy(S, t, r) == [S EXCEPT !.hist.asked = [t |-> t, iflags |-> S.xfer[t].iflags, r |-> r]]

\* a synchronous cancel that raises the flag before it asks the backend
cancel_transfer_sync_flag_first(S, t, r) ==
    LET F == [S EXCEPT !.xfer[t].iflags = @ \cup {SYNC_CANCELLED}]
        C == backend_cancel_transfer(AskedBy(F, t, r), t, r)
    IN  IF r < 0
        THEN Return(C, r)
        ELSE [C EXCEPT !.sync = t]

\* libusb_cancel_transfer_sync up to its wait loop
cancel_transfer_sync_call(S, t, r) ==
    LET C == backend_cancel_transfer(AskedBy(S, t, r), t, r)
    IN  IF r < 0
        THEN Return(C, r)
        ELSE [C EXCEPT !.xfer[t].iflags = @ \cup {SYNC_CANCELLED}, !.sync = t]

\* one turn of the wait loop of libusb_cancel_transfer_sync
cancel_transfer_sync_loop(S, sel, events, her, rs) ==
    LET P == libusb_poll(S, sel, events, her, rs)
    IN  IF P.hist.ret < 0 THEN [P EXCEPT !.sync = NoTransfer] ELSE P

cancel_transfer_sync_return(S) == Return([S EXCEPT !.sync = NoTransfer], 0)

(***************************************************************************)
(* Inputs: what the application and the environment may choose.            *)
(***************************************************************************)
TickTv == <<0, 50000>>

TickMsec == TickTv[2] \div 1000

InitClock == <<0, 900000000>>

\* the clock may still advance to ts
ClockInRange(ts) ==
    (ts[1] - InitClock[1]) * 1000 + (ts[2] - InitClock[2]) \div 1000000
        <= MaxClockTicks * TickMsec

UserTvs == {<<0, 0>>, <<0, 100000>>}

BackendAnswers == {0, -1}

\* the setup packet as the application writes it, its 16-bit fields in the
\* byte order of the host
HostBuffer(pkt) ==
    Store16(Store16(Store16(<<pkt.bmRequestType, pkt.bRequest, 0, 0, 0, 0, 0, 0>>,
                            OFFSET_wValue, pkt.wValue),
                    OFFSET_wIndex, pkt.wIndex),
            OFFSET_wLength, pkt.wLength)

\* GET_DESCRIPTOR(device), 18 bytes
DefaultPacket ==
    [bmRequestType |-> 128, bRequest |-> 6, wValue |-> 256, wIndex |-> 0, wLength |-> 18]

Plain(to) ==
    [timeout |-> to, callback |-> TRUE, flags |-> {}, endpoint_type |-> "bulk",
     length |-> 4, buffer |-> HostBuffer(DefaultPacket)]

\* the fields the application fills in before it submits
Setups ==
    {Plain(0), Plain(50), Plain(100),
     [Plain(50) EXCEPT !.flags = {FREE_TRANSFER}],
     [Plain(0) EXCEPT !.callback = FALSE],
     [Plain(0) EXCEPT !.flags = {SHORT_NOT_OK, FREE_TRANSFER},
                      !.endpoint_type = "control", !.length = 12]}

Requested(transfer) ==
    IF transfer.endpoint_type = "control"
    THEN transfer.length - LIBUSB_CONTROL_SETUP_SIZE
    ELSE transfer.length

NoAct == [resubmit |-> FALSE, r |-> 0]

\* what the callback of t may do: nothing, or submit t again
Acts(t) ==
    {NoAct} \cup
    IF xfer[t].callback /\ FREE_TRANSFER \notin xfer[t].flags
    THEN {[resubmit |-> TRUE, r |-> r] : r \in BackendAnswers}
    ELSE {}

\* the terminal outcomes the backend may report for an in-flight transfer
Reports(t) ==
    {[t |-> t, kind |-> "completion", status |-> "COMPLETED", transferred |-> n,
      act |-> a] :
        n \in IF SHORT_NOT_OK \in xfer[t].flags
              THEN {0, Requested(xfer[t])} ELSE {Requested(xfer[t])},
        a \in Acts(t)}
    \cup
    IF urb[t] = "discarding"
    THEN {[t |-> t, kind |-> "cancellation", status |-> "none", transferred |-> 0,
           act |-> a] : a \in Acts(t)}
    ELSE {}

InFlight == {t \in Transfers : urb[t] # "none"}

EventBatches ==
    {<<>>}
    \cup {<<e>> : e \in UNION {Reports(t) : t \in InFlight}}
    \cup {b \in {<<e1, e2>> : e1 \in UNION {Reports(t) : t \in InFlight},
                              e2 \in UNION {Reports(t) : t \in InFlight}} :
            b[1].t # b[2].t}

\* the outcomes of one select() and of the backend calls that follow it
PollInputs ==
    {[sel |-> "timeout", events |-> <<>>, her |-> 0],
     [sel |-> "EINTR", events |-> <<>>, her |-> 0],
     [sel |-> "error", events |-> <<>>, her |-> 0]}
    \cup {in \in {[sel |-> "ready", events |-> b, her |-> r] :
                      b \in EventBatches, r \in BackendAnswers} :
            Len(in.events) > 1 => in.her = 0}

\* the backend's answers to the cancel requests of a sweep
SweepAnswers ==
    {rs \in [Transfers -> BackendAnswers] :
        \A t \in Transfers :
            \/ urb[t] = "none"
            \/ ~timerisset(xfer[t].deadline) /\ xfer[t].timeout = 0
            => rs[t] = 0}

(***************************************************************************)
(* Devices and handles.  Any thread may call the API; a thread is          *)
(* interleaved with the others wherever it holds no lock.  A call that     *)
(* takes a lock, works and releases it is one step.                        *)
(***************************************************************************)
NoDevice == 0

MaxKeptRefcnt == 1

Threads == DOMAIN thr

Devices == DOMAIN dev

NoMemory == [session |-> 0, refcnt |-> 0, mem |-> "unalloc", destroyed |-> 0]

IdleThread ==
    [pc |-> "idle", ids |-> <<>>, cur |-> NoDevice, new |-> FALSE, vec |-> <<>>,
     i |-> 0, list |-> <<>>, haslist |-> FALSE, sel |-> NoDevice,
     u |-> NoDevice, then |-> "none", base |-> << >>]

NoHandle == [st |-> "none", dev |-> NoDevice, claimed_interfaces |-> {}]

\* list_for_each_entry over usb_devs, under usb_devs_lock
RECURSIVE FirstWithSession(_, _)
FirstWithSession(list, session_id) ==
    IF list = <<>> THEN NoDevice
    ELSE IF dev[Head(list)].session = session_id THEN Head(list)
         ELSE FirstWithSession(Tail(list), session_id)

usbi_get_device_by_session_id(session_id) == FirstWithSession(usb_devs, session_id)

libusb_get_device(h) == hdl[h].dev

\* malloc: the first object never allocated (freed memory is not handed out again)
Unallocated == {d \in Devices : dev[d].mem = "unalloc"}

FreshDevice == CHOOSE d \in Unallocated : \A e \in Unallocated : d <= e

\* the reference counts a caller finds when it enters the library (0 for memory
\* that holds no device); a thread keeps them in `base' until the call returns
RefCounts == [d \in Devices |-> IF dev[d].mem = "live" THEN dev[d].refcnt ELSE 0]

\* dev->refcnt++ under dev->lock.  Freed memory keeps what it held when it was
\* freed: an access to it finds that, unless it ends the process (Crash).
RefCounted(d) == [dev EXCEPT ![d].refcnt = @ + 1]

DevStep(t, dev2, devs2, open2, hdl2, T) ==
    /\ ~crashed
    /\ dev' = dev2
    /\ usb_devs' = devs2
    /\ usbi_open_devs' = open2
    /\ hdl' = hdl2
    /\ thr' = [thr EXCEPT ![t] = T]
    /\ crashed' = FALSE
    /\ UNCHANGED <<iovars, ifvars>>

\* the thread enters libusb_unref_device(d) and will go on at `then'
CallUnref(T, d, then) == [T EXCEPT !.pc = "unref_dec", !.u = d, !.then = then]

\* the backend's enumeration loop moves on to the next session id, or returns
EnumNext(T) ==
    IF Len(T.ids) > 1
    THEN [T EXCEPT !.pc = "enum_find", !.ids = Tail(@), !.cur = NoDevice,
                   !.new = FALSE, !.u = NoDevice, !.then = "none"]
    ELSE [T EXCEPT !.pc = "copy", !.ids = <<>>, !.cur = NoDevice, !.new = FALSE,
                   !.u = NoDevice, !.then = "none", !.i = 1]

\* a caller of libusb_unref_device whose loop over a device list stops after
\* the first device
AfterUnrefFirstOnly(T) ==
    CASE T.then = "enum_next" -> EnumNext(T)
      [] T.then = "vecfree_next" ->
            IF T.i < Len(T.vec)
            THEN [T EXCEPT !.pc = "unref_dec", !.i = @ + 1, !.u = T.vec[T.i + 1]]
            ELSE [T EXCEPT !.pc = "idle", !.list = T.vec, !.haslist = TRUE,
                           !.vec = <<>>, !.i = 0, !.u = NoDevice, !.then = "none",
                           !.base = << >>]
      [] T.then = "freelist_next" ->
            [T EXCEPT !.pc = "idle", !.list = <<>>, !.haslist = FALSE,
                      !.i = 0, !.u = NoDevice, !.then = "none", !.base = << >>]
      [] T.then = "exit_next" ->
            [T EXCEPT !.pc = "exit_loop", !.i = 0, !.u = NoDevice, !.then = "none"]
      [] OTHER ->
            [T EXCEPT !.pc = "idle", !.sel = NoDevice, !.u = NoDevice, !.then = "none"]

\* where the thread is when libusb_unref_device returns
AfterUnref(T) ==
    CASE T.then = "enum_next" -> EnumNext(T)
      [] T.then = "vecfree_next" ->
            IF T.i < Len(T.vec)
            THEN [T EXCEPT !.pc = "unref_dec", !.i = @ + 1, !.u = T.vec[T.i + 1]]
            ELSE [T EXCEPT !.pc = "idle", !.list = T.vec, !.haslist = TRUE,
                           !.vec = <<>>, !.i = 0, !.u = NoDevice, !.then = "none",
                           !.base = << >>]
      [] T.then = "freelist_next" ->
            IF T.i < Len(T.list)
            THEN [T EXCEPT !.pc = "unref_dec", !.i = @ + 1, !.u = T.list[T.i + 1]]
            ELSE [T EXCEPT !.pc = "idle", !.list = <<>>, !.haslist = FALSE,
                           !.i = 0, !.u = NoDevice, !.then = "none",
                           !.base = << >>]
      [] T.then = "exit_next" ->
            [T EXCEPT !.pc = "exit_loop", !.i = 0, !.u = NoDevice, !.then = "none"]
      [] OTHER ->
            [T EXCEPT !.pc = "idle", !.sel = NoDevice, !.u = NoDevice, !.then = "none"]

\* free(handle) once the unref of a failed open or of a close has returned
HandlesAfterUnref(t, T) ==
    IF T.then \in {"open_fail", "close_done"} THEN [hdl EXCEPT ![t] = NoHandle]
    ELSE IF T.then = "exit_next" THEN [hdl EXCEPT ![T.i] = NoHandle]
    ELSE hdl

\* libusb_unref_device: refcnt = --dev->refcnt under dev->lock
UnrefDec(t) ==
    LET T == thr[t]
        dev2 == [dev EXCEPT ![T.u].refcnt = @ - 1]
    IN  /\ T.pc = "unref_dec"
        /\ IF dev2[T.u].refcnt = 0
           THEN DevStep(t, dev2, usb_devs, usbi_open_devs, hdl,
                        [T EXCEPT !.pc = "unref_destroy"])
           ELSE DevStep(t, dev2, usb_devs, usbi_open_devs, HandlesAfterUnref(t, T),
                        AfterUnref(T))

\* libusb_unref_device: usbi_backend->destroy_device(dev), no lock held
UnrefDestroy(t) ==
    LET T == thr[t]
    IN  /\ T.pc = "unref_destroy"
        /\ DevStep(t, [dev EXCEPT ![T.u].destroyed = @ + 1], usb_devs, usbi_open_devs,
                   hdl, [T EXCEPT !.pc = "unref_del"])

\* libusb_unref_device: list_del(&dev->list) under usb_devs_lock
UnrefDel(t) ==
    LET T == thr[t]
    IN  /\ T.pc = "unref_del"
        /\ DevStep(t, dev, Remove(usb_devs, T.u), usbi_open_devs, hdl,
                   [T EXCEPT !.pc = "unref_free"])

\* libusb_unref_device: free(dev), and return
UnrefFree(t) ==
    LET T == thr[t]
    IN  /\ T.pc = "unref_free"
        /\ DevStep(t, [dev EXCEPT ![T.u].mem = "freed"], usb_devs, usbi_open_devs,
                   HandlesAfterUnref(t, T), AfterUnref(T))

\* libusb_get_device_list: discovered_devs_alloc, then the backend starts its
\* scan of the attached devices
GetDeviceList(t, attached) ==
    LET T == thr[t]
    IN  /\ T.pc = "idle" /\ ~T.haslist
        /\ DevStep(t, dev, usb_devs, usbi_open_devs, hdl,
                   [T EXCEPT !.pc = "enum_find", !.ids = attached, !.vec = <<>>,
                             !.base = RefCounts])

\* the backend's scan: usbi_get_device_by_session_id for the next session id
EnumFind(t) ==
    LET T == thr[t]
        found == usbi_get_device_by_session_id(Head(T.ids))
    IN  /\ T.pc = "enum_find"
        /\ DevStep(t, dev, usb_devs, usbi_open_devs, hdl,
                   [T EXCEPT !.cur = found, !.new = FALSE,
                             !.pc = IF found = NoDevice THEN "enum_alloc"
                                    ELSE "enum_append"])

\* usbi_alloc_device: a device with refcnt 1, added at the head of usb_devs
usbi_alloc_device(t) ==
    LET T == thr[t]
        d == FreshDevice
    IN  /\ T.pc = "enum_alloc" /\ Unallocated # {}
        /\ DevStep(t, [dev EXCEPT ![d] = [session |-> Head(T.ids), refcnt |-> 1,
                                          mem |-> "live", destroyed |-> 0]],
                   <<d>> \o usb_devs, usbi_open_devs, hdl,
                   [T EXCEPT !.cur = d, !.new = TRUE, !.pc = "enum_append"])

\* discovered_devs_append: the vector takes a reference; the backend then drops
\* the reference of a device it has just allocated
discovered_devs_append(t) ==
    LET T == thr[t]
        A == [T EXCEPT !.vec = Append(@, T.cur)]
    IN  /\ T.pc = "enum_append"
        /\ DevStep(t, RefCounted(T.cur), usb_devs, usbi_open_devs, hdl,
                   IF T.new THEN CallUnref(A, T.cur, "enum_next") ELSE EnumNext(A))

\* a copy of the vector into the list that takes no references
CopyListNoRef(t) ==
    LET T == thr[t]
    IN  /\ T.pc = "copy"
        /\ DevStep(t, dev, usb_devs, usbi_open_devs, hdl,
                   IF T.i < Len(T.vec)
                   THEN [T EXCEPT !.i = @ + 1]
                   ELSE CallUnref([T EXCEPT !.i = 1], T.vec[1], "vecfree_next"))

\* libusb_get_device_list: ret[i] = libusb_ref_device(discdevs->devices[i]);
\* after the last one, discovered_devs_free starts to drop the vector's references
CopyList(t) ==
    LET T == thr[t]
    IN  /\ T.pc = "copy"
        /\ DevStep(t, RefCounted(T.vec[T.i]), usb_devs, usbi_open_devs, hdl,
                   IF T.i < Len(T.vec)
                   THEN [T EXCEPT !.i = @ + 1]
                   ELSE CallUnref([T EXCEPT !.i = 1], T.vec[1], "vecfree_next"))

\* the caller keeps the references of a list freed with unref_devices = 0 for
\* good; it does so only for devices with at most MaxKeptRefcnt references
libusb_free_device_list(t, unref_devices) ==
    LET T == thr[t]
    IN  /\ T.pc = "idle" /\ T.haslist
        /\ ~unref_devices =>
              \A i \in 1..Len(T.list) : dev[T.list[i]].refcnt <= MaxKeptRefcnt
        /\ DevStep(t, dev, usb_devs, usbi_open_devs, hdl,
                   IF unref_devices /\ T.list # <<>>
                   THEN CallUnref([T EXCEPT !.i = 1, !.base = RefCounts],
                                  T.list[1], "freelist_next")
                   ELSE [T EXCEPT !.list = <<>>, !.haslist = FALSE])

\* an open whose handle takes two references to the device
libusb_open_two_refs(t, d, r) ==
    LET T == thr[t]
        O == [T EXCEPT !.sel = d]
        dev2 == [dev EXCEPT ![d].refcnt = @ + 2]
    IN  /\ T.pc = "idle" /\ T.haslist /\ hdl[t].st = "none"
        /\ \E i \in 1..Len(T.list) : T.list[i] = d
        /\ DevStep(t, dev2, usb_devs, usbi_open_devs,
                   [hdl EXCEPT ![t] = [st |-> "allocated", dev |-> d,
                                       claimed_interfaces |-> {}]],
                   IF r < 0 THEN CallUnref(O, d, "open_fail")
                   ELSE [O EXCEPT !.pc = "open_add"])

\* libusb_open: the handle is allocated and takes a reference; r is the answer
\* of usbi_backend->open
libusb_open(t, d, r) ==
    LET T == thr[t]
        O == [T EXCEPT !.sel = d]
    IN  /\ T.pc = "idle" /\ T.haslist /\ hdl[t].st = "none"
        /\ \E i \in 1..Len(T.list) : T.list[i] = d
        /\ DevStep(t, RefCounted(d), usb_devs, usbi_open_devs,
                   [hdl EXCEPT ![t] = [st |-> "allocated", dev |-> d,
                                       claimed_interfaces |-> {}]],
                   IF r < 0 THEN CallUnref(O, d, "open_fail")
                   ELSE [O EXCEPT !.pc = "open_add"])

\* libusb_open: list_add(&handle->list, &usbi_open_devs) under usbi_open_devs_lock
OpenAdd(t) ==
    LET T == thr[t]
    IN  /\ T.pc = "open_add"
        /\ DevStep(t, dev, usb_devs, <<t>> \o usbi_open_devs,
                   [hdl EXCEPT ![t].st = "open"], [T EXCEPT !.pc = "idle"])

\* libusb_close: list_del under usbi_open_devs_lock, then do_close:
\* usbi_backend->close and the unref of the handle's device
libusb_close(t) ==
    LET T == thr[t]
    IN  /\ T.pc = "idle" /\ hdl[t].st = "open"
        /\ DevStep(t, dev, usb_devs, Remove(usbi_open_devs, t),
                   [hdl EXCEPT ![t].st = "closing"],
                   CallUnref(T, hdl[t].dev, "close_done"))

\* libusb_exit: pthread_mutex_lock(&usbi_open_devs_lock); the lock is held
\* until the loop over the handle table has ended
libusb_exit(t) ==
    LET T == thr[t]
    IN  /\ T.pc = "idle"
        /\ DevStep(t, dev, usb_devs, usbi_open_devs, hdl, [T EXCEPT !.pc = "exit_loop"])

\* libusb_exit: list_del of the next handle left open and do_close(devh):
\* usbi_backend->close and the unref of its device; free(devh) follows the unref
ExitClose(t) ==
    LET T == thr[t]
        devh == Head(usbi_open_devs)
    IN  /\ T.pc = "exit_loop" /\ usbi_open_devs # <<>>
        /\ DevStep(t, dev, usb_devs, Tail(usbi_open_devs),
                   [hdl EXCEPT ![devh].st = "closing"],
                   CallUnref([T EXCEPT !.i = devh], hdl[devh].dev, "exit_next"))

\* libusb_exit: pthread_mutex_unlock(&usbi_open_devs_lock) after the loop, and
\* usbi_backend->exit
ExitUnlock(t) ==
    LET T == thr[t]
    IN  /\ T.pc = "exit_loop" /\ usbi_open_devs = <<>>
        /\ DevStep(t, dev, usb_devs, usbi_open_devs, hdl, [T EXCEPT !.pc = "idle"])

\* the locks the thread holds between two of its steps: usbi_open_devs_lock
\* throughout the loop of libusb_exit; every other lock is taken and released
\* within one step
Held(t) ==
    IF thr[t].pc = "exit_loop" \/ thr[t].then = "exit_next"
    THEN {"usbi_open_devs_lock"} ELSE {}

\* the lock the next step of the thread takes inside a call, by where it is
Acquires(t) ==
    LET pc == thr[t].pc
    IN  CASE pc \in {"unref_dec", "enum_append", "copy"} -> {"dev->lock"}
          [] pc \in {"unref_del", "enum_find", "enum_alloc"} -> {"usb_devs_lock"}
          [] pc = "open_add" -> {"usbi_open_devs_lock"}
          [] OTHER -> {}

\* the devices the next step of the thread may read or write
Touched(t) ==
    LET T == thr[t]
    IN  CASE T.pc \in {"unref_dec", "unref_destroy", "unref_del", "unref_free"} -> {T.u}
          [] T.pc = "enum_append" -> {T.cur}
          [] T.pc = "copy" -> {T.vec[T.i]}
          [] T.pc = "idle" /\ T.haslist /\ hdl[t].st = "none" ->
                {T.list[i] : i \in 1..Len(T.list)}
          [] OTHER -> {}

\* an access to freed memory may also end the process
Crash(t) ==
    /\ ~crashed
    /\ \E d \in Touched(t) : dev[d].mem = "freed"
    /\ crashed' = TRUE
    /\ UNCHANGED <<dev, usb_devs, usbi_open_devs, hdl, thr, iovars, ifvars>>

\* the int of every build has 32 bits
INT_BITS == 32

\* a little-endian LP64 build on which a shift by 32 or more uses the count
\* modulo 32
DefaultBuild == [bits |-> 64, shift |-> "wrap", endian |-> "little"]

NoCall == [op |-> "none", n |-> 0, called |-> FALSE, ret |-> 0]

InitIface(Th) ==
    /\ build = DefaultBuild
    /\ ifobs = [last |-> NoCall, owned |-> [h \in Th |-> {}]]

InitDev(Th, D) ==
    /\ InitIface(Th)
    /\ dev = [d \in D |-> NoMemory]
    /\ usb_devs = <<>>
    /\ usbi_open_devs = <<>>
    /\ hdl = [t \in Th |-> NoHandle]
    /\ thr = [t \in Th |-> IdleThread]
    /\ crashed = FALSE

(***************************************************************************)
(* Claimed interfaces.  handle->claimed_interfaces is an unsigned long,    *)
(* kept here as the set of its one bits; the masks are computed in int, as *)
(* 1 << interface_number.                                                  *)
(***************************************************************************)
LIBUSB_ERROR_INVALID_PARAM == -2

LIBUSB_ERROR_NOT_FOUND == -5

Builds == [bits : {INT_BITS, 2 * INT_BITS}, shift : {"wrap", "zero"}, endian : {"little"}]

\* the one bits of the int with bit k alone, converted to unsigned long: the
\* int with bit 31 alone is negative, and its conversion extends the sign
IntBit(k) == IF k = INT_BITS - 1 THEN (INT_BITS - 1)..(build.bits - 1) ELSE {k}

\* 1 << n, converted to unsigned long.  A shift by the width of int or more is
\* undefined: the machine uses the count modulo 32, or yields 0
ShiftedOne(n) ==
    IF n < INT_BITS THEN IntBit(n)
    ELSE IF build.shift = "wrap" THEN IntBit(n % INT_BITS) ELSE {}

\* ~(1 << n), converted to unsigned long
NotShiftedOne(n) ==
    IF (IF n < INT_BITS THEN n ELSE n % INT_BITS) = INT_BITS - 1
          /\ (n < INT_BITS \/ build.shift = "wrap")
    THEN 0..(INT_BITS - 2)
    ELSE (0..(build.bits - 1)) \ ShiftedOne(n)

\* interface_number >= sizeof(dev->claimed_interfaces) * 8, compared as size_t:
\* a negative int is converted to a huge unsigned value
OutOfRange(n) == n < 0 \/ n >= build.bits

IfaceStep(h, claimed, op, n, called, ret, owned) ==
    /\ hdl' = [hdl EXCEPT ![h].claimed_interfaces = claimed]
    /\ ifobs' = [last |-> [op |-> op, n |-> n, called |-> called, ret |-> ret],
                 owned |-> [ifobs.owned EXCEPT ![h] = owned]]
    /\ UNCHANGED <<build, dev, usb_devs, usbi_open_devs, thr, crashed, iovars>>

\* libusb_claim_interface; r is the answer of usbi_backend->claim_interface
libusb_claim_interface(h, n, r) ==
    LET claimed == hdl[h].claimed_interfaces
        owned == ifobs.owned[h]
    IN  /\ hdl[h].st = "open" /\ ~crashed
        /\ IF OutOfRange(n)
           THEN IfaceStep(h, claimed, "claim", n, FALSE, LIBUSB_ERROR_INVALID_PARAM, owned)
           ELSE IF claimed \cap ShiftedOne(n) # {}
                THEN IfaceStep(h, claimed, "claim", n, FALSE, 0, owned)
                ELSE IF r = 0
                     THEN IfaceStep(h, claimed \cup ShiftedOne(n), "claim", n, TRUE, 0,
                                    owned \cup {n})
                     ELSE IfaceStep(h, claimed, "claim", n, TRUE, r, owned)

\* libusb_release_interface; r is the answer of usbi_backend->release_interface
libusb_release_interface(h, n, r) ==
    LET claimed == hdl[h].claimed_interfaces
        owned == ifobs.owned[h]
    IN  /\ hdl[h].st = "open" /\ ~crashed
        /\ IF OutOfRange(n)
           THEN IfaceStep(h, claimed, "release", n, FALSE, LIBUSB_ERROR_INVALID_PARAM, owned)
           ELSE IF claimed \cap ShiftedOne(n) = {}
                THEN IfaceStep(h, claimed, "release", n, FALSE, LIBUSB_ERROR_NOT_FOUND, owned)
                ELSE IF r = 0
                     THEN IfaceStep(h, claimed \cap NotShiftedOne(n), "release", n, TRUE, 0,
                                    owned \ {n})
                     ELSE IfaceStep(h, claimed, "release", n, TRUE, r, owned)

\* libusb_set_interface_alt_setting; r is the answer of
\* usbi_backend->set_interface_altsetting
libusb_set_interface_alt_setting(h, n, alt, r) ==
    LET claimed == hdl[h].claimed_interfaces
        owned == ifobs.owned[h]
    IN  /\ hdl[h].st = "open" /\ ~crashed
        /\ IF OutOfRange(n)
           THEN IfaceStep(h, claimed, "set_alt", n, FALSE, LIBUSB_ERROR_INVALID_PARAM, owned)
           ELSE IF claimed \cap ShiftedOne(n) = {}
                THEN IfaceStep(h, claimed, "set_alt", n, FALSE, LIBUSB_ERROR_NOT_FOUND, owned)
                ELSE IfaceStep(h, claimed, "set_alt", n, TRUE, r, owned)

\* libusb_set_interface_alt_setting up to the release of the handle's lock:
\* the range check and, under the lock, the test of the claimed bit.  The
\* thread returns at once or goes on to the backend with the lock released
SetAltCheck(t, h, n, alt) ==
    LET claimed == hdl[h].claimed_interfaces
        owned == ifobs.owned[h]
    IN  /\ thr[t].pc = "idle" /\ hdl[h].st = "open" /\ ~crashed
        /\ IF OutOfRange(n)
           THEN IfaceStep(h, claimed, "set_alt", n, FALSE, LIBUSB_ERROR_INVALID_PARAM, owned)
           ELSE IF claimed \cap ShiftedOne(n) = {}
                THEN IfaceStep(h, claimed, "set_alt", n, FALSE, LIBUSB_ERROR_NOT_FOUND, owned)
                ELSE /\ thr' = [thr EXCEPT ![t].pc = "set_alt_call", ![t].i = n]
                     /\ UNCHANGED <<build, ifobs, dev, usb_devs, usbi_open_devs, hdl,
                                    crashed, iovars>>

\* libusb_set_interface_alt_setting after the unlock: the call of
\* usbi_backend->set_interface_altsetting, which answers r
SetAltCall(t, h, r) ==
    /\ thr[t].pc = "set_alt_call" /\ ~crashed
    /\ thr' = [thr EXCEPT ![t].pc = "idle", ![t].i = 0]
    /\ hdl' = hdl
    /\ ifobs' = [last |-> [op |-> "set_alt", n |-> thr[t].i, called |-> TRUE, ret |-> r],
                 owned |-> ifobs.owned]
    /\ UNCHANGED <<build, dev, usb_devs, usbi_open_devs, crashed, iovars>>

(***************************************************************************)
(* The engine specification.                                               *)
(***************************************************************************)
InitHist(T) ==
    [submission |-> [t \in T |-> IdleSubmission], ret |-> 0, swept |-> FALSE,
     asked |-> NoAsk, reaped |-> FALSE, poll |-> NoPoll, submitted |-> NoSubmit,
     watched |-> EmptyBag, fdcall |-> NoFdCall]

\* the engine with the transfers T allocated and nothing submitted
InitState(T) ==
    [xfer |-> [t \in T |-> ZeroTransfer], flying |-> <<>>, now |-> InitClock,
     urb |-> [t \in T |-> "none"], freed |-> [t \in T |-> FALSE],
     sync |-> NoTransfer, pollfds |-> <<>>,
     notifiers |-> [fd_added_cb |-> NULL, fd_removed_cb |-> NULL],
     hist |-> InitHist(T)]

StartsAs(S) ==
    /\ xfer = S.xfer
    /\ flying_transfers = S.flying
    /\ now = S.now
    /\ urb = S.urb
    /\ freed = S.freed
    /\ sync = S.sync
    /\ pollfds = S.pollfds
    /\ notifiers = S.notifiers
    /\ hist = S.hist

InitIO(T) == StartsAs(InitState(T))

\* the user fills in the fields of t before submitting it
Fill(S, t, setup) ==
    [S EXCEPT !.xfer[t].timeout = setup.timeout,
              !.xfer[t].callback = setup.callback,
              !.xfer[t].flags = setup.flags,
              !.xfer[t].endpoint_type = setup.endpoint_type,
              !.xfer[t].length = setup.length,
              !.xfer[t].buffer = setup.buffer,
              !.hist.submission[t] = [IdleSubmission EXCEPT !.written = setup.buffer]]

\* the state a call starts from
Begin ==
    [State EXCEPT !.hist.swept = FALSE, !.hist.asked = NoAsk, !.hist.reaped = FALSE,
                  !.hist.poll = NoPoll, !.hist.submitted = NoSubmit,
                  !.hist.fdcall = NoFdCall]

Step(S) ==
    \E R \in {S} :
        /\ xfer' = R.xfer
        /\ flying_transfers' = R.flying
        /\ now' = R.now
        /\ urb' = R.urb
        /\ freed' = R.freed
        /\ sync' = R.sync
        /\ pollfds' = R.pollfds
        /\ notifiers' = R.notifiers
        /\ hist' = R.hist
        /\ UNCHANGED <<devvars, ifvars>>

Usable(t) == ~freed[t] /\ urb[t] = "none"

InitTransfer(t) ==
    /\ sync = NoTransfer /\ Usable(t)
    /\ Step(Return([Begin EXCEPT !.xfer[t] = ZeroTransfer,
                                  !.hist.submission[t] = IdleSubmission], 0))

Submit(t, setup, r) ==
    /\ sync = NoTransfer /\ Usable(t)
    /\ Step(libusb_submit_transfer(Fill(Begin, t, setup), t, r))

Cancel(t, r) ==
    /\ sync = NoTransfer /\ ~freed[t]
    /\ urb[t] = "none" => r < 0
    /\ Step(libusb_cancel_transfer(Begin, t, r))

CancelSyncCall(t, r) ==
    /\ sync = NoTransfer /\ ~freed[t]
    /\ urb[t] = "none" => r < 0
    /\ Step(cancel_transfer_sync_call(Begin, t, r))

CancelSyncLoop(in, rs) ==
    /\ sync # NoTransfer
    /\ SYNC_CANCELLED \in xfer[sync].iflags \/ freed[sync]
    /\ in.sel = "timeout" =>
          ClockInRange(ClockAfter(now, select_timeout(Begin, <<POLL_TV_SEC, 0>>)))
    /\ Step(cancel_transfer_sync_loop(Begin, in.sel, in.events, in.her, rs))

CancelSyncReturn ==
    /\ sync # NoTransfer
    /\ SYNC_CANCELLED \notin xfer[sync].iflags \/ freed[sync]
    /\ Step(cancel_transfer_sync_return(Begin))

PollTimeout(tv, in, rs) ==
    /\ sync = NoTransfer
    /\ in.sel = "timeout" => ClockInRange(ClockAfter(now, select_timeout(Begin, tv)))
    /\ in.sel # "timeout" => tv = <<0, 0>>
    /\ Step(libusb_poll_timeout(Begin, tv, in.sel, in.events, in.her, rs))

FreeTransfer(t) ==
    /\ sync = NoTransfer /\ Usable(t)
    /\ Step(Return(libusb_free_transfer(Begin, t), 0))

AllocTransfer(t) ==
    /\ sync = NoTransfer /\ freed[t]
    /\ Step(Return(libusb_alloc_transfer(Begin, t), 0))

Tick ==
    /\ ClockInRange(ClockAfter(now, TickTv))
    /\ Step([Begin EXCEPT !.now = ClockAfter(now, TickTv)])

Next ==
    \/ \E t \in Transfers : InitTransfer(t)
    \/ \E t \in Transfers, setup \in Setups, r \in BackendAnswers : Submit(t, setup, r)
    \/ \E t \in Transfers, r \in BackendAnswers : Cancel(t, r)
    \/ \E t \in Transfers, r \in BackendAnswers : CancelSyncCall(t, r)
    \/ \E in \in PollInputs, rs \in SweepAnswers : CancelSyncLoop(in, rs)
    \/ CancelSyncReturn
    \/ \E tv \in UserTvs, in \in PollInputs, rs \in SweepAnswers :
          PollTimeout(tv, in, rs)
    \/ \E t \in Transfers : FreeTransfer(t)
    \/ \E t \in Transfers : AllocTransfer(t)
    \/ Tick

Init == InitIO(1..NumTransfers) /\ InitDev({}, {})

Spec == Init /\ [][Next]_vars

(***************************************************************************)
(* The waiting specification: a caller that submits and cancels            *)
(* synchronously, whose thread keeps running the wait loop of               *)
(* libusb_cancel_transfer_sync.                                             *)
(***************************************************************************)
LiveSetups == {Plain(0), Plain(50), [Plain(0) EXCEPT !.callback = FALSE]}

\* a turn of the wait loop in which neither select() nor the backend fails
LoopProgress ==
    \E in \in PollInputs, rs \in SweepAnswers :
        in.sel # "error" /\ in.her = 0 /\ CancelSyncLoop(in, rs)

\* while (itransfer->flags & USBI_TRANSFER_SYNC_CANCELLED): the thread in the
\* loop takes its next turn, and leaves once it sees the flag cleared
Fairness == WF_vars(LoopProgress) /\ WF_vars(CancelSyncReturn)

InitLive == Init

NextLive ==
    \/ \E t \in Transfers, setup \in LiveSetups, r \in BackendAnswers : Submit(t, setup, r)
    \/ \E t \in Transfers, r \in BackendAnswers : CancelSyncCall(t, r)
    \/ \E in \in PollInputs, rs \in SweepAnswers : CancelSyncLoop(in, rs)
    \/ CancelSyncReturn

SpecLive == InitLive /\ [][NextLive]_vars /\ Fairness

(***************************************************************************)
(* The driven specification: an application that submits with and without  *)
(* timeouts and keeps driving the event loop, whose callbacks do not submit *)
(* again, and a backend that does not withhold the outcome of a transfer.   *)
(***************************************************************************)
DrivenSetups == {Plain(0), Plain(50)}

\* the outcomes of a poll in which neither select() nor the backend fails and
\* no callback submits again
DrivenInputs ==
    {in \in PollInputs :
        /\ in.sel # "error" /\ in.her = 0
        /\ \A i \in 1..Len(in.events) : in.events[i].act = NoAct}

\* libusb_poll_timeout is called when the backend has an outcome of an
\* in-flight transfer ready
BackendReports ==
    \E in \in DrivenInputs, rs \in SweepAnswers :
        in.sel = "ready" /\ in.events # <<>> /\ PollTimeout(<<0, 0>>, in, rs)

\* the event loop keeps being driven, and the backend does not withhold the
\* outcome of an in-flight transfer from it for ever
FairnessDriven == WF_vars(BackendReports)

InitDriven == Init

NextDriven ==
    \/ \E t \in Transfers, setup \in DrivenSetups, r \in BackendAnswers :
          Submit(t, setup, r)
    \/ \E tv \in UserTvs, in \in DrivenInputs, rs \in SweepAnswers :
          PollTimeout(tv, in, rs)
    \/ Tick

SpecDriven == InitDriven /\ [][NextDriven]_vars /\ FairnessDriven

(***************************************************************************)
(* The free-on-completion specification: transfers submitted with          *)
(* LIBUSB_TRANSFER_FREE_TRANSFER whose callback may submit the transfer it  *)
(* is handed again.  Once the in-flight list holds a freed transfer every   *)
(* further access to the list is undefined, and the behaviour is not        *)
(* followed beyond that state.                                              *)
(***************************************************************************)
FreeSetups ==
    {[Plain(0) EXCEPT !.flags = {FREE_TRANSFER}],
     [Plain(50) EXCEPT !.flags = {FREE_TRANSFER}],
     [Plain(0) EXCEPT !.flags = {FREE_TRANSFER}, !.callback = FALSE]}

\* what a callback may do whatever the flags of its transfer
FreeActs(t) ==
    {NoAct} \cup
    IF xfer[t].callback
    THEN {[resubmit |-> TRUE, r |-> r] : r \in BackendAnswers}
    ELSE {}

FreeReports(t) ==
    {[t |-> t, kind |-> "completion", status |-> "COMPLETED",
      transferred |-> Requested(xfer[t]), act |-> a] : a \in FreeActs(t)}
    \cup
    IF urb[t] = "discarding"
    THEN {[t |-> t, kind |-> "cancellation", status |-> "none", transferred |-> 0,
           act |-> a] : a \in FreeActs(t)}
    ELSE {}

FreePollInputs ==
    {[sel |-> "timeout", events |-> <<>>, her |-> 0]}
    \cup {[sel |-> "ready", events |-> <<e>>, her |-> 0] :
             e \in UNION {FreeReports(t) : t \in InFlight}}

\* the in-flight list holds a transfer whose memory was freed
Dangling == \E i \in 1..Len(flying_transfers) : freed[flying_transfers[i]]

InitFree == Init

NextFree ==
    \/ \E t \in Transfers, setup \in FreeSetups, r \in BackendAnswers :
          ~Dangling /\ Submit(t, setup, r)
    \/ \E tv \in UserTvs, in \in FreePollInputs, rs \in SweepAnswers :
          ~Dangling /\ PollTimeout(tv, in, rs)
    \/ \E t \in Transfers : ~Dangling /\ AllocTransfer(t)
    \/ ~Dangling /\ Tick

SpecFree == InitFree /\ [][NextFree]_vars

(***************************************************************************)
(* The event-loop specification: the backend registers and removes file    *)
(* descriptors while the application submits and polls.                    *)
(***************************************************************************)
MaxPollfds == 2

Fds == {3, 5}

EventMasks == {{POLLIN}, {POLLOUT}, {POLLIN, POLLOUT}}

PollSetups == {Plain(0), Plain(50)}

AddPollfd(fd, events, ok) ==
    /\ sync = NoTransfer
    /\ Len(pollfds) < MaxPollfds
    /\ Step(usbi_add_pollfd(Begin, fd, events, ok))

RemovePollfd(fd) ==
    /\ sync = NoTransfer
    /\ Step(Return(usbi_remove_pollfd(Begin, fd), 0))

SetPollfdNotifiers(added_cb, removed_cb) ==
    /\ sync = NoTransfer
    /\ Step(Return(libusb_set_pollfd_notifiers(Begin, added_cb, removed_cb), 0))

GetPollfds(ok) ==
    /\ sync = NoTransfer
    /\ Step(Return(libusb_get_pollfds(Begin, ok), 0))

InitPoll == Init

NextPoll ==
    \/ \E t \in Transfers, setup \in PollSetups, r \in BackendAnswers :
          Submit(t, setup, r)
    \/ \E tv \in UserTvs, in \in PollInputs, rs \in SweepAnswers :
          PollTimeout(tv, in, rs)
    \/ \E fd \in Fds, events \in EventMasks, ok \in BOOLEAN : AddPollfd(fd, events, ok)
    \/ \E fd \in Fds : RemovePollfd(fd)
    \/ Tick

SpecPoll == InitPoll /\ [][NextPoll]_vars

(***************************************************************************)
(* The registry specification: the backend adds and removes descriptors,   *)
(* the application sets its notifiers and asks for the descriptors.        *)
(***************************************************************************)
AddedCallbacks == {NULL, "on_added", "on_added_too"}

RemovedCallbacks == {NULL, "on_removed"}

InitRegistry == InitIO({}) /\ InitDev({}, {})

NextRegistry ==
    \/ \E added_cb \in AddedCallbacks, removed_cb \in RemovedCallbacks :
          SetPollfdNotifiers(added_cb, removed_cb)
    \/ \E fd \in Fds, events \in EventMasks, ok \in BOOLEAN : AddPollfd(fd, events, ok)
    \/ \E fd \in Fds : RemovePollfd(fd)
    \/ \E ok \in BOOLEAN : GetPollfds(ok)

SpecRegistry == InitRegistry /\ [][NextRegistry]_vars

(***************************************************************************)
(* The scheduler specification: several transfers with callbacks, submitted *)
(* with and without timeouts, cancelled, reaped and swept.                  *)
(***************************************************************************)
NumSchedTransfers == 3

\* transfer t is always submitted with the timeout SchedTimeouts[t]
SchedTimeouts == <<200, 0, 50>>

SchedSetup(t) ==
    [Plain(SchedTimeouts[((t - 1) % Len(SchedTimeouts)) + 1]) EXCEPT !.callback = FALSE]

NextSched ==
    \/ \E t \in Transfers, r \in BackendAnswers : Submit(t, SchedSetup(t), r)
    \/ \E tv \in UserTvs, in \in PollInputs, rs \in SweepAnswers :
          PollTimeout(tv, in, rs)
    \/ Tick

InitSched == InitIO(1..NumSchedTransfers) /\ InitDev({}, {})

SpecSched == InitSched /\ [][NextSched]_vars

(***************************************************************************)
(* The completion specification: one transfer in flight, of any shape, for  *)
(* which the backend reports a completion with any status and byte count.   *)
(***************************************************************************)
MaxLength == 512

Lengths == {LIBUSB_CONTROL_SETUP_SIZE, 12, MaxLength}

ByteCounts == {0, 4, 200, MaxLength - LIBUSB_CONTROL_SETUP_SIZE, MaxLength}

CompletionStatuses ==
    {"COMPLETED", "ERROR", "TIMED_OUT", "CANCELLED", "STALL", "NO_DEVICE", "OVERFLOW",
     "SILENT_COMPLETION"}

CompletionSetups ==
    {[timeout |-> 0, callback |-> cb, flags |-> fl, endpoint_type |-> ty, length |-> len,
      buffer |-> HostBuffer(DefaultPacket)] :
        cb \in BOOLEAN, fl \in SUBSET {SHORT_NOT_OK},
        ty \in {"control", "bulk"}, len \in Lengths}

InitCompletion ==
    /\ InitDev({}, {})
    /\ \E setup \in CompletionSetups :
          StartsAs(libusb_submit_transfer(Fill(InitState({1}), 1, setup), 1, 0))

\* the backend reaps t and reports the completion to the core; the callback
\* does not submit again
HandleCompletion(t, status, n) ==
    /\ urb[t] # "none"
    /\ n <= Requested(xfer[t])
    /\ Step(backend_reap(Begin, [t |-> t, kind |-> "completion", status |-> status,
                                 transferred |-> n, act |-> NoAct]))

NextCompletion ==
    \E t \in Transfers, status \in CompletionStatuses, n \in ByteCounts :
        HandleCompletion(t, status, n)

SpecCompletion == InitCompletion /\ [][NextCompletion]_vars

(***************************************************************************)
(* The device specification: threads that enumerate, open, close and free  *)
(* their lists concurrently.                                               *)
(***************************************************************************)
NumThreads == 2

MaxDevices == 3

Attached == <<10>>

NextDev ==
    \/ \E t \in Threads : GetDeviceList(t, Attached)
    \/ \E t \in Threads : EnumFind(t)
    \/ \E t \in Threads : usbi_alloc_device(t)
    \/ \E t \in Threads : discovered_devs_append(t)
    \/ \E t \in Threads : CopyList(t)
    \/ \E t \in Threads : UnrefDec(t)
    \/ \E t \in Threads : UnrefDestroy(t)
    \/ \E t \in Threads : UnrefDel(t)
    \/ \E t \in Threads : UnrefFree(t)
    \/ \E t \in Threads, unref_devices \in BOOLEAN : libusb_free_device_list(t, unref_devices)
    \/ \E t \in Threads, d \in Devices, r \in BackendAnswers : libusb_open(t, d, r)
    \/ \E t \in Threads : OpenAdd(t)
    \/ \E t \in Threads : libusb_close(t)
    \/ \E t \in Threads : Crash(t)

InitDevices == InitIO({}) /\ InitDev(1..NumThreads, 1..MaxDevices)

SpecDev == InitDevices /\ [][NextDev]_vars

(***************************************************************************)
(* The exit specification: one caller that enumerates, opens, closes and   *)
(* calls libusb_exit, with or without a handle left open.                   *)
(***************************************************************************)
NextExit ==
    \/ \E t \in Threads : GetDeviceList(t, Attached)
    \/ \E t \in Threads : EnumFind(t)
    \/ \E t \in Threads : usbi_alloc_device(t)
    \/ \E t \in Threads : discovered_devs_append(t)
    \/ \E t \in Threads : CopyList(t)
    \/ \E t \in Threads : UnrefDec(t)
    \/ \E t \in Threads : UnrefDestroy(t)
    \/ \E t \in Threads : UnrefDel(t)
    \/ \E t \in Threads : UnrefFree(t)
    \/ \E t \in Threads, unref_devices \in BOOLEAN : libusb_free_device_list(t, unref_devices)
    \/ \E t \in Threads, d \in Devices, r \in BackendAnswers : libusb_open(t, d, r)
    \/ \E t \in Threads : OpenAdd(t)
    \/ \E t \in Threads : libusb_close(t)
    \/ \E t \in Threads : libusb_exit(t)
    \/ \E t \in Threads : ExitClose(t)
    \/ \E t \in Threads : ExitUnlock(t)

InitExit == InitIO({}) /\ InitDev({1}, 1..MaxDevices)

SpecExit == InitExit /\ [][NextExit]_vars

(***************************************************************************)
(* The sequential device specification: one caller, two devices attached   *)
(* (sessions 10 and 11).                                                   *)
(***************************************************************************)
AttachedSeq == <<10, 11>>

NextSeq ==
    \/ \E t \in Threads : GetDeviceList(t, AttachedSeq)
    \/ \E t \in Threads : EnumFind(t)
    \/ \E t \in Threads : usbi_alloc_device(t)
    \/ \E t \in Threads : discovered_devs_append(t)
    \/ \E t \in Threads : CopyList(t)
    \/ \E t \in Threads : UnrefDec(t)
    \/ \E t \in Threads : UnrefDestroy(t)
    \/ \E t \in Threads : UnrefDel(t)
    \/ \E t \in Threads : UnrefFree(t)
    \/ \E t \in Threads, unref_devices \in BOOLEAN : libusb_free_device_list(t, unref_devices)
    \/ \E t \in Threads, d \in Devices, r \in BackendAnswers : libusb_open(t, d, r)
    \/ \E t \in Threads : OpenAdd(t)
    \/ \E t \in Threads : libusb_close(t)

InitSeq == InitIO({}) /\ InitDev({1}, 1..MaxDevices)

SpecSeq == InitSeq /\ [][NextSeq]_vars

(***************************************************************************)
(* The interface specification: one open handle, on any build, and a       *)
(* caller that claims, releases and sets alternate settings.               *)
(***************************************************************************)
\* -1 and the two widths are out of range on every build, 33 on some
InterfaceNumbers == {-1, 0, 1, INT_BITS - 1, INT_BITS + 1, 2 * INT_BITS}

AltSettings == {0, 1}

\* the state after enumeration, libusb_open of the device and
\* libusb_free_device_list(list, 1)
InitInterfaces ==
    /\ InitIO({})
    /\ build \in Builds
    /\ ifobs = [last |-> NoCall, owned |-> [h \in {1} |-> {}]]
    /\ dev = [d \in {1} |-> [session |-> 10, refcnt |-> 1, mem |-> "live",
                              destroyed |-> 0]]
    /\ usb_devs = <<1>>
    /\ usbi_open_devs = <<1>>
    /\ hdl = [h \in {1} |-> [st |-> "open", dev |-> 1, claimed_interfaces |-> {}]]
    /\ thr = [t \in {1} |-> IdleThread]
    /\ crashed = FALSE

NextInterfaces ==
    \/ \E h \in DOMAIN hdl, n \in InterfaceNumbers, r \in BackendAnswers :
          libusb_claim_interface(h, n, r)
    \/ \E h \in DOMAIN hdl, n \in InterfaceNumbers, r \in BackendAnswers :
          libusb_release_interface(h, n, r)
    \/ \E h \in DOMAIN hdl, n \in InterfaceNumbers, alt \in AltSettings,
          r \in BackendAnswers :
          libusb_set_interface_alt_setting(h, n, alt, r)

SpecInterfaces == InitInterfaces /\ [][NextInterfaces]_vars

(***************************************************************************)
(* The shared-handle specification: two threads use one open handle; a     *)
(* claim or a release holds the handle's lock from its test of the bit to  *)
(* its return, an alternate-setting call only for its test.                *)
(***************************************************************************)
SharedInterfaces == {-1, 0, 1}

InitShared ==
    /\ InitIO({})
    /\ build = DefaultBuild
    /\ ifobs = [last |-> NoCall, owned |-> [h \in {1} |-> {}]]
    /\ dev = [d \in {1} |-> [session |-> 10, refcnt |-> 1, mem |-> "live",
                              destroyed |-> 0]]
    /\ usb_devs = <<1>>
    /\ usbi_open_devs = <<1>>
    /\ hdl = [h \in {1} |-> [st |-> "open", dev |-> 1, claimed_interfaces |-> {}]]
    /\ thr = [t \in {1, 2} |-> IdleThread]
    /\ crashed = FALSE

NextShared ==
    \/ \E t \in Threads, h \in DOMAIN hdl, n \in SharedInterfaces, r \in BackendAnswers :
          thr[t].pc = "idle" /\ libusb_claim_interface(h, n, r)
    \/ \E t \in Threads, h \in DOMAIN hdl, n \in SharedInterfaces, r \in BackendAnswers :
          thr[t].pc = "idle" /\ libusb_release_interface(h, n, r)
    \/ \E t \in Threads, h \in DOMAIN hdl, n \in SharedInterfaces, alt \in AltSettings :
          SetAltCheck(t, h, n, alt)
    \/ \E t \in Threads, h \in DOMAIN hdl, r \in BackendAnswers : SetAltCall(t, h, r)

SpecShared == InitShared /\ [][NextShared]_vars

(***************************************************************************)
(* The setup specification: one transfer, on a little-endian or a          *)
(* big-endian host, submitted with a setup packet (or, for a bulk          *)
(* transfer, the same bytes as data) that the application has just written.*)
(***************************************************************************)
\* 0x00FF, 0x0100, 0x1234, 0x5678
SetupValues == {255, 256, 4660, 22136}

SetupPackets ==
    [bmRequestType : {128}, bRequest : {6}, wValue : SetupValues,
     wIndex : SetupValues, wLength : SetupValues]

Hosts == [bits : {2 * INT_BITS}, shift : {"wrap"}, endian : {"little", "big"}]

WithPacket(ty, pkt) ==
    [Plain(0) EXCEPT !.endpoint_type = ty, !.length = 2 * LIBUSB_CONTROL_SETUP_SIZE,
                     !.buffer = HostBuffer(pkt)]

SubmitSetup(t, ty, pkt, r) == Submit(t, WithPacket(ty, pkt), r)

InitSetup ==
    /\ InitIO({1})
    /\ build \in Hosts
    /\ ifobs = [last |-> NoCall, owned |-> [h \in {} |-> {}]]
    /\ dev = [d \in {} |-> NoMemory]
    /\ usb_devs = <<>>
    /\ usbi_open_devs = <<>>
    /\ hdl = [t \in {} |-> NoHandle]
    /\ thr = [t \in {} |-> IdleThread]
    /\ crashed = FALSE

NextSetup ==
    \/ \E t \in Transfers, ty \in {"control", "bulk"}, pkt \in SetupPackets,
          r \in BackendAnswers : SubmitSetup(t, ty, pkt, r)
    \/ \E t \in Transfers : HandleCompletion(t, "COMPLETED", 0)

SpecSetup == InitSetup /\ [][NextSetup]_vars

(***************************************************************************)
(* Scenario S1: the sequential caller, who frees every list it gets with   *)
(* unref_devices = 1.                                                      *)
(***************************************************************************)
NextS1 ==
    \/ \E t \in Threads : GetDeviceList(t, AttachedSeq)
    \/ \E t \in Threads : EnumFind(t)
    \/ \E t \in Threads : usbi_alloc_device(t)
    \/ \E t \in Threads : discovered_devs_append(t)
    \/ \E t \in Threads : CopyList(t)
    \/ \E t \in Threads : UnrefDec(t)
    \/ \E t \in Threads : UnrefDestroy(t)
    \/ \E t \in Threads : UnrefDel(t)
    \/ \E t \in Threads : UnrefFree(t)
    \/ \E t \in Threads : libusb_free_device_list(t, TRUE)
    \/ \E t \in Threads, d \in Devices, r \in BackendAnswers : libusb_open(t, d, r)
    \/ \E t \in Threads : OpenAdd(t)
    \/ \E t \in Threads : libusb_close(t)

InitS1 == InitIO({}) /\ InitDev({1}, 1..MaxDevices)

SpecS1 == InitS1 /\ [][NextS1]_vars

(***************************************************************************)
(* Properties of the transfer engine.                                      *)
(***************************************************************************)
Sub(t) == hist.submission[t]

Terminal(t) == Sub(t).report \in {"completion", "cancellation"}

Linked(t) == \E i \in 1..Len(flying_transfers) : flying_transfers[i] = t

\* C1 as stated: every submission whose terminal outcome has been reported had
\* its callback invoked exactly once, except that with FREE_TRANSFER the
\* callback is replaced by the free of the transfer.
C1_CallbackOnceOrFreeInstead ==
    \A t \in Transfers :
        Terminal(t) =>
            \/ Sub(t).frees = 0 /\ Sub(t).callbacks = 1
            \/ Sub(t).frees = 1 /\ Sub(t).callbacks = 0

\* C1 amended: no callback is invoked while a submission is in flight, and a
\* reported terminal outcome produces exactly one of: one callback invocation
\* (callback set), no invocation because the callback is NULL, or a silent
\* completion, which only a reported cancellation produces.  FREE_TRANSFER does
\* not replace the callback: the transfer is freed once, after the delivery.
C1_ExactlyOneDelivery ==
    \A t \in Transfers :
        /\ urb[t] # "none" =>
              Sub(t).callbacks + Sub(t).skipped + Sub(t).silent + Sub(t).frees = 0
        /\ Terminal(t) =>
              /\ Sub(t).callbacks + Sub(t).skipped + Sub(t).silent = 1
              /\ Sub(t).silent = 1 => Sub(t).report = "cancellation" /\ Sub(t).frees = 0
              /\ Sub(t).frees = 1 => Sub(t).callbacks + Sub(t).skipped = 1
              /\ Sub(t).frees <= 1
              /\ ~freed[t] /\ Sub(t).silent = 0 =>
                    (Sub(t).callbacks = 1 <=> xfer[t].callback)

\* a FREE_TRANSFER submission timed out, its callback ran and it was freed
C1_Witness ==
    \E t \in Transfers :
        /\ Sub(t).report = "cancellation" /\ Sub(t).status = "TIMED_OUT"
        /\ Sub(t).callbacks = 1 /\ Sub(t).frees = 1

\* C3 as stated: while cancel_transfer_sync(t) is in progress the callback of t
\* has not been invoked, and the call is about to return 0 (the flag is clear)
\* only when the backend has reported the terminal outcome of t.
C3_SyncCancelSuppressesCallback ==
    \A t \in Transfers :
        sync = t =>
            /\ Sub(t).callbacks = 0
            /\ SYNC_CANCELLED \notin xfer[t].iflags => urb[t] = "none"

\* C4 as stated: after a sweep, an in-flight transfer with a non-zero timeout
\* whose deadline has passed bears the TIMED_OUT latch and one cancel was
\* requested for it; when the cancellation is then reported (and neither a
\* synchronous cancel nor a NULL callback is involved) the callback has run
\* once with status TIMED_OUT and the transfer is delinked.
C4_TimeoutCancelsOnce ==
    \A t \in Transfers :
        /\ hist.swept /\ Linked(t) /\ xfer[t].timeout # 0
              /\ ~timer_gt(xfer[t].deadline, TIMESPEC_TO_TIMEVAL(now)) =>
                 TIMED_OUT \in xfer[t].iflags /\ Sub(t).tocancels = 1
        /\ Sub(t).report = "cancellation" /\ Sub(t).tocancels = 1
              /\ Sub(t).silent = 0 /\ Sub(t).skipped = 0 =>
                 Sub(t).callbacks = 1 /\ Sub(t).status = "TIMED_OUT" /\ ~Linked(t)

\* C5: when the backend reports the cancellation of t, SYNC_CANCELLED (if set)
\* is cleared and the completion is silent, with no callback; otherwise a
\* latched TIMED_OUT is delivered as TIMED_OUT; otherwise CANCELLED is delivered.
C5_CancellationPriority ==
    [][\A t \in Transfers :
          urb[t] = "discarding" /\ hist'.submission[t].report = "cancellation" =>
              IF SYNC_CANCELLED \in xfer[t].iflags
              THEN /\ SYNC_CANCELLED \notin xfer'[t].iflags
                   /\ hist'.submission[t].silent = 1
                   /\ hist'.submission[t].callbacks = 0
                   /\ hist'.submission[t].status = "none"
              ELSE IF TIMED_OUT \in xfer[t].iflags
                   THEN /\ hist'.submission[t].status = "TIMED_OUT"
                        /\ hist'.submission[t].silent = 0
                   ELSE /\ hist'.submission[t].status = "CANCELLED"
                        /\ hist'.submission[t].silent = 0]_vars

\* a cancellation was reported for a transfer that was both timed out and
\* synchronously cancelled, and it completed silently
C5_Witness ==
    \E t \in Transfers :
        /\ Sub(t).report = "cancellation" /\ Sub(t).silent = 1
        /\ Sub(t).tocancels = 1 /\ TIMED_OUT \in xfer[t].iflags

(***************************************************************************)
(* Properties of the scheduler.                                            *)
(***************************************************************************)
usecs(tv) == tv[1] * USEC_PER_SEC + tv[2]

Deadline(i) == xfer[flying_transfers[i]].deadline

SortedByDeadline ==
    \A i, j \in 1..Len(flying_transfers) :
        i < j =>
            /\ timerisset(Deadline(j)) => timerisset(Deadline(i))
            /\ timerisset(Deadline(i)) /\ timerisset(Deadline(j)) =>
                  usecs(Deadline(i)) <= usecs(Deadline(j))

\* T1 (200 ms) and T2 (no timeout) are in flight, in this order of submission,
\* and T3 (50 ms) is accepted in this step, its deadline before that of T1
ScenarioS4Step ==
    /\ flying_transfers = <<1, 2>> /\ urb[3] = "none" /\ urb'[3] = "pending"
    /\ xfer[1].timeout = 200 /\ xfer[2].timeout = 0 /\ xfer'[3].timeout = 50
    /\ ~timerisset(xfer[2].deadline)
    /\ usecs(xfer'[3].deadline) < usecs(xfer[1].deadline)

\* C2: walking the in-flight list from its head yields the set deadlines in
\* non-decreasing order with every unset deadline after every set one, and
\* submitting T1 (200 ms), T2 (no timeout), T3 (50 ms) in that order leaves
\* the list as T3, T1, T2.
C2_ListSortedByDeadline ==
    /\ []SortedByDeadline
    /\ [][ScenarioS4Step => flying_transfers' = <<3, 1, 2>>]_vars

\* the three transfers of the scenario are in flight in the scenario's order
C2_Witness ==
    /\ flying_transfers = <<3, 1, 2>>
    /\ xfer[1].timeout = 200 /\ xfer[2].timeout = 0 /\ xfer[3].timeout = 50
    /\ ~timerisset(xfer[2].deadline)
    /\ usecs(xfer[3].deadline) < usecs(xfer[1].deadline)

(***************************************************************************)
(* Properties of the completion handler.                                   *)
(***************************************************************************)
\* the bytes requested of the device: the length, less the setup packet of a
\* control transfer
BytesRequested(t) ==
    IF xfer[t].endpoint_type = "control" THEN xfer[t].length - 8 ELSE xfer[t].length

IsShortError(t, status, n) ==
    status = "COMPLETED" /\ SHORT_NOT_OK \in xfer[t].flags /\ n < BytesRequested(t)

\* C6: handle_completion(t, status) publishes ERROR exactly when status is
\* COMPLETED, t has SHORT_NOT_OK and fewer bytes were transferred than requested
\* (the length, minus the 8-byte setup header for control transfers); any other
\* non-SILENT status is published unchanged; actual_length is the number of
\* bytes transferred (length 512 with 200 bytes transferred: ERROR, 200).
C6_ShortTransferIsError ==
    [][\A t \in Transfers, status \in CompletionStatuses \ {"SILENT_COMPLETION"},
          n \in ByteCounts :
          HandleCompletion(t, status, n) =>
              /\ xfer'[t].status = IF IsShortError(t, status, n) THEN "ERROR" ELSE status
              /\ xfer'[t].status = "ERROR" <=> (status = "ERROR" \/ IsShortError(t, status, n))
              /\ xfer'[t].actual_length = n
              /\ (xfer[t].length = 512 /\ xfer[t].endpoint_type = "bulk" /\ n = 200
                    /\ status = "COMPLETED" /\ SHORT_NOT_OK \in xfer[t].flags) =>
                       xfer'[t].status = "ERROR" /\ xfer'[t].actual_length = 200]_vars

\* a 512-byte SHORT_NOT_OK transfer completed with 200 bytes
C6_Witness ==
    \E t \in Transfers :
        /\ Sub(t).report = "completion" /\ SHORT_NOT_OK \in xfer[t].flags
        /\ xfer[t].length = 512 /\ xfer[t].endpoint_type = "bulk"
        /\ xfer[t].status = "ERROR" /\ xfer[t].actual_length = 200

(***************************************************************************)
(* Properties of devices and handles.                                      *)
(***************************************************************************)
InRegistry(d) == \E i \in 1..Len(usb_devs) : usb_devs[i] = d

\* C7 as stated, at the points where it is observed: whenever a thread looks
\* a session id up in the registry (under the registry lock), every device
\* linked in the registry, the one returned in particular, has a reference
\* count of at least 1.
C7_RegisteredDevicesAreReferenced ==
    [][\A t \in Threads :
          EnumFind(t) =>
              /\ \A d \in Devices : InRegistry(d) => dev[d].refcnt >= 1
              /\ thr'[t].cur # NoDevice => dev[thr'[t].cur].refcnt >= 1]_vars

\* C8 as stated: the destroy_device hook is invoked for a device only when its
\* reference count has reached 0, and never twice; a device that was freed by
\* its last unref is out of the registry and had the hook invoked exactly once.
C8_DestroyedOnceAtLastUnref ==
    /\ [](\A d \in Devices :
            /\ dev[d].destroyed <= 1
            /\ dev[d].mem = "freed" => ~InRegistry(d) /\ dev[d].destroyed = 1)
    /\ [][\A d \in Devices :
            dev'[d].destroyed > dev[d].destroyed => dev[d].refcnt = 0]_vars

\* C9 as stated: the registry holds at most one device per session id, and the
\* lookup of a session id right after usbi_alloc_device returns the device just
\* allocated, its reference count still 1.
C9_SessionIdsAreUnique ==
    /\ [](\A i, j \in 1..Len(usb_devs) :
            i # j => dev[usb_devs[i]].session # dev[usb_devs[j]].session)
    /\ [][\A t \in Threads :
            usbi_alloc_device(t) =>
                /\ usbi_get_device_by_session_id(Head(thr[t].ids))' = thr'[t].cur
                /\ dev'[thr'[t].cur].refcnt = 1]_vars

\* C10 as stated: the device of an open handle is live memory with a reference
\* count of at least 1, and get_device returns the device that was opened;
\* the open adds exactly one reference, a failed open has left the handle
\* table alone, and the close removes the handle and drops one reference.
C10_HandleHoldsItsDevice ==
    /\ [](\A t \in Threads :
            hdl[t].st = "open" =>
                /\ libusb_get_device(t) = thr[t].sel
                /\ dev[libusb_get_device(t)].mem = "live"
                /\ dev[libusb_get_device(t)].refcnt >= 1)
    /\ [][\A t \in Threads :
            /\ (hdl[t].st = "none" /\ hdl'[t].st = "allocated") =>
                  dev'[hdl'[t].dev].refcnt = dev[hdl'[t].dev].refcnt + 1
            /\ (thr[t].then = "open_fail" /\ thr'[t].then = "none") =>
                  usbi_open_devs' = usbi_open_devs /\ hdl'[t].st = "none"
            /\ (hdl[t].st = "closing" /\ thr[t].pc = "unref_dec" /\ thr'[t].pc # "unref_dec") =>
                  dev'[hdl[t].dev].refcnt = dev[hdl[t].dev].refcnt - 1]_vars

(***************************************************************************)
(* Scenario S1 and the reference counts of enumeration.                    *)
(***************************************************************************)
\* the caller holds a list of two devices and a handle on device[0]
S1Opened(t) ==
    /\ thr[t].pc = "idle" /\ thr[t].haslist /\ Len(thr[t].list) = 2
    /\ hdl[t].st = "open" /\ hdl[t].dev = thr[t].list[1]

\* the caller has freed its list and still holds the handle
S1ListFreed(t) == thr[t].pc = "idle" /\ ~thr[t].haslist /\ hdl[t].st = "open"

\* libusb_close returns to a caller that holds no list
S1Closed(t) == hdl[t].st = "closing" /\ hdl'[t].st = "none" /\ ~thr[t].haslist

S1Destroyed(d) ==
    /\ dev'[d].refcnt = 0 /\ dev'[d].mem = "freed" /\ dev'[d].destroyed = 1
    /\ \A i \in 1..Len(usb_devs') : usb_devs'[i] # d

\* C11 as stated: in scenario S1 the opened device[0] has reference count 3,
\* free_device_list(unref=true) brings it to 2, and close brings it to 0, the
\* device destroyed and the destroy hook invoked exactly once.
C11_ScenarioS1AsStated ==
    /\ [](\A t \in Threads : S1Opened(t) => dev[hdl[t].dev].refcnt = 3)
    /\ [](\A t \in Threads : S1ListFreed(t) => dev[hdl[t].dev].refcnt = 2)
    /\ [][\A t \in Threads : S1Closed(t) => S1Destroyed(hdl[t].dev)]_vars

\* C11, amended: in scenario S1 the opened device[0] has reference count 2 (the
\* list's reference and the handle's), free_device_list(unref=true) brings it
\* to 1, and close brings it to 0, the device unlinked, destroyed and the
\* destroy hook invoked exactly once.
C11_ScenarioS1 ==
    /\ [](\A t \in Threads : S1Opened(t) => dev[hdl[t].dev].refcnt = 2)
    /\ [](\A t \in Threads : S1ListFreed(t) => dev[hdl[t].dev].refcnt = 1)
    /\ [][\A t \in Threads : S1Closed(t) => S1Destroyed(hdl[t].dev)]_vars

\* the close of scenario S1 is about to free device[0] (session 10)
C11_Witness ==
    \E t \in Threads :
        /\ hdl[t].st = "closing" /\ ~thr[t].haslist /\ thr[t].pc = "unref_free"
        /\ thr[t].u = hdl[t].dev /\ dev[thr[t].u].session = 10
        /\ dev[thr[t].u].refcnt = 0 /\ dev[thr[t].u].destroyed = 1

\* libusb_get_device_list returns its list to the caller in this step
GetDeviceListReturns(t) == ~thr[t].haslist /\ thr'[t].haslist

\* C12: when get_device_list returns, every device of the list that the call
\* newly presented (it did not exist when the call was entered) has reference
\* count 1, and every device of the list has exactly one reference more than
\* when the call was entered: the list's, the vector's being all released.
C12_NewDevicesHaveOneReference ==
    [][\A t \in Threads :
          GetDeviceListReturns(t) =>
              \A i \in 1..Len(thr'[t].list) :
                  LET d == thr'[t].list[i]
                  IN  /\ thr[t].base[d] = 0 => dev'[d].refcnt = 1
                      /\ dev'[d].refcnt = thr[t].base[d] + 1
                      /\ dev'[d].mem = "live"]_vars

\* a first enumeration has returned the two attached devices, each newly
\* presented with reference count 1
C12_Witness ==
    \E t \in Threads :
        /\ thr[t].pc = "idle" /\ thr[t].haslist /\ Len(thr[t].list) = 2
        /\ hdl[t].st = "none"
        /\ \A i \in 1..2 : dev[thr[t].list[i]].refcnt = 1
        /\ \A d \in Devices : dev[d].mem = "live" <=> d \in {thr[t].list[1], thr[t].list[2]}
        /\ thr[t].list[1] # thr[t].list[2]

\* libusb_free_device_list(list, 1) returns to its caller in this step
FreeDeviceListReturns(t) ==
    thr[t].then = "freelist_next" /\ thr[t].haslist /\ ~thr'[t].haslist

InList(t, d) == \E i \in 1..Len(thr[t].list) : thr[t].list[i] = d

\* C13: when free_device_list(list, unref=true) returns, every device of the
\* list has exactly one reference less than when the call was entered, those
\* that reached 0 are destroyed (hook invoked once, unlinked, freed) and the
\* others live on, and no other device's count has changed;
\* free_device_list(list, unref=false) changes no reference count.
C13_FreeListDropsOneEach ==
    [][\A t \in Threads :
          /\ FreeDeviceListReturns(t) =>
                \A d \in Devices :
                    IF InList(t, d)
                    THEN /\ dev'[d].refcnt = thr[t].base[d] - 1
                         /\ IF dev'[d].refcnt = 0
                            THEN /\ dev'[d].mem = "freed" /\ dev'[d].destroyed = 1
                                 /\ \A i \in 1..Len(usb_devs') : usb_devs'[i] # d
                            ELSE dev'[d].mem = "live" /\ dev'[d].destroyed = 0
                    ELSE dev'[d].mem = "live" => dev'[d].refcnt = thr[t].base[d]
          /\ libusb_free_device_list(t, FALSE) =>
                /\ \A d \in Devices : dev'[d].refcnt = dev[d].refcnt
                /\ ~thr'[t].haslist /\ thr'[t].pc = "idle"]_vars

\* a list of two devices has been freed with unref=true: the one the caller
\* has open lives on with the handle's reference, the other one is destroyed
C13_Witness ==
    \E t \in Threads, d \in Devices :
        /\ thr[t].pc = "idle" /\ ~thr[t].haslist /\ hdl[t].st = "open"
        /\ d # hdl[t].dev /\ dev[hdl[t].dev].refcnt = 1 /\ dev[hdl[t].dev].mem = "live"
        /\ dev[d].mem = "freed" /\ dev[d].destroyed = 1 /\ dev[d].refcnt = 0

(***************************************************************************)
(* Properties of the claimed-interface bitmap.                             *)
(***************************************************************************)
Handles == DOMAIN hdl

InRange(n) == n \in 0..(build.bits - 1)

BitSet(h, n) == n \in hdl[h].claimed_interfaces

\* C14: for every handle and every interface number n of the bitmap, bit n is
\* set exactly when the most recent backend-accepted operation on n was a
\* claim, and a claim or release that the backend rejects leaves the bitmap
\* unchanged.
C14_BitmapReflectsBackend ==
    /\ [](\A h \in Handles :
            hdl[h].st = "open" =>
                \A n \in 0..(build.bits - 1) : BitSet(h, n) <=> n \in ifobs.owned[h])
    /\ [][\A h \in Handles :
            ifobs'.last.called /\ ifobs'.last.ret # 0 /\ ifobs' # ifobs =>
                hdl'[h].claimed_interfaces = hdl[h].claimed_interfaces]_vars

\* C15: claim_interface for an interface whose bit is already set returns
\* success, makes no backend call and leaves the bitmap unchanged.
C15_ClaimIsIdempotent ==
    [][\A h \in Handles, n \in InterfaceNumbers, r \in BackendAnswers :
          libusb_claim_interface(h, n, r) /\ InRange(n) /\ BitSet(h, n) =>
              /\ ifobs'.last.ret = 0 /\ ~ifobs'.last.called
              /\ hdl'[h].claimed_interfaces = hdl[h].claimed_interfaces]_vars

\* C16: release_interface and set_interface_alt_setting for an interface whose
\* bit is not set return NOT_FOUND, make no backend call and leave the bitmap
\* unchanged.
C16_UnclaimedIsNotFound ==
    [][\A h \in Handles, n \in InterfaceNumbers, r \in BackendAnswers :
          /\ InRange(n) /\ ~BitSet(h, n)
          /\ \/ libusb_release_interface(h, n, r)
             \/ \E alt \in AltSettings : libusb_set_interface_alt_setting(h, n, alt, r)
          => /\ ifobs'.last.ret = LIBUSB_ERROR_NOT_FOUND /\ ~ifobs'.last.called
             /\ hdl'[h].claimed_interfaces = hdl[h].claimed_interfaces]_vars

(***************************************************************************)
(* More properties of the transfer engine.                                 *)
(***************************************************************************)
Occurrences(t) ==
    Cardinality({i \in 1..Len(flying_transfers) : flying_transfers[i] = t})

\* the backend has accepted the submission of t and has reported no terminal
\* outcome for it
AcceptedUnreported(t) == Sub(t).report = "none"

\* C17: a transfer is linked in the in-flight list (once) if and only if the
\* backend has accepted its submission and has not yet reported a terminal
\* outcome for it.
C17_LinkedIffInFlight ==
    \A t \in Transfers :
        /\ Linked(t) <=> AcceptedUnreported(t)
        /\ Occurrences(t) <= 1
        /\ AcceptedUnreported(t) <=> urb[t] # "none"

\* a transfer whose cancellation was reported and whose callback has run is
\* no longer linked
C17_Witness ==
    \E t \in Transfers :
        /\ Sub(t).report = "cancellation" /\ Sub(t).callbacks = 1
        /\ xfer[t].status = "CANCELLED" /\ ~Linked(t)

\* the bytes of a setup packet on the wire: the 16-bit fields little-endian
WireBuffer(pkt) ==
    <<pkt.bmRequestType, pkt.bRequest,
      pkt.wValue % 256, pkt.wValue \div 256,
      pkt.wIndex % 256, pkt.wIndex \div 256,
      pkt.wLength % 256, pkt.wLength \div 256>>

\* the 16-bit field at offset off of what the application wrote, as the host
\* reads it
HostValue(t, off) == Load16(Sub(t).written, off)

\* C18: on a little-endian and on a big-endian host, a control transfer that
\* has been submitted with a setup packet written in host byte order has wValue,
\* wIndex and wLength in its buffer in little-endian order and the first two
\* bytes as they were written (so wValue = 0x1234, wIndex = 0x5678, wLength =
\* 0x00FF leave bytes 2..7 equal to 0x34, 0x12, 0x78, 0x56, 0xFF, 0x00); the
\* buffer of a submitted transfer of another type is as it was written.
C18_SetupIsLittleEndian ==
    \A t \in Transfers :
        xfer[t].buffer # NoBuffer =>
            IF xfer[t].endpoint_type = "control"
            THEN /\ xfer[t].buffer =
                      WireBuffer([bmRequestType |-> Sub(t).written[1],
                                  bRequest |-> Sub(t).written[2],
                                  wValue |-> HostValue(t, OFFSET_wValue),
                                  wIndex |-> HostValue(t, OFFSET_wIndex),
                                  wLength |-> HostValue(t, OFFSET_wLength)])
                 /\ (/\ HostValue(t, OFFSET_wValue) = 4660
                     /\ HostValue(t, OFFSET_wIndex) = 22136
                     /\ HostValue(t, OFFSET_wLength) = 255) =>
                       SubSeq(xfer[t].buffer, 3, 8) = <<52, 18, 120, 86, 255, 0>>
            ELSE xfer[t].buffer = Sub(t).written

\* a control transfer in flight on a big-endian host whose buffer holds
\* 0x1234, 0x5678, 0x00FF little-endian, which is not how the host wrote them
C18_Witness ==
    \E t \in Transfers :
        /\ build.endian = "big" /\ urb[t] # "none" /\ Linked(t)
        /\ Sub(t).written # NoBuffer
        /\ xfer[t].endpoint_type = "control"
        /\ SubSeq(xfer[t].buffer, 3, 8) = <<52, 18, 120, 86, 255, 0>>
        /\ xfer[t].buffer # Sub(t).written
        /\ HostValue(t, OFFSET_wValue) = 4660

\* the step is a call of libusb_cancel_transfer_sync on t
SyncCancelAsked(t) == hist'.asked.t = t

\* in this step the backend reports the cancellation of t while
\* libusb_cancel_transfer_sync waits for t
ReportedWhileWaiting(t) ==
    /\ sync = t /\ urb[t] = "discarding"
    /\ Sub(t).report = "none" /\ hist'.submission[t].report = "cancellation"

SilentlyCancelled(t) ==
    /\ hist'.submission[t].silent = 1 /\ hist'.submission[t].callbacks = 0
    /\ hist'.submission[t].status = "none"

\* C19 as stated: the SYNC_CANCELLED flag is on the transfer at the moment
\* libusb_cancel_transfer_sync asks the backend to cancel, and a cancellation
\* reported while the call waits is silent.
C19_FlagBeforeAskAsStated ==
    /\ [](hist.asked.t # NoTransfer => SYNC_CANCELLED \in hist.asked.iflags)
    /\ [][\A t \in Transfers : ReportedWhileWaiting(t) => SilentlyCancelled(t)]_vars

\* C19: libusb_cancel_transfer_sync asks the backend to cancel with the flags
\* of the transfer as they were on entry, and raises SYNC_CANCELLED only after
\* the backend accepted, before the first turn of the event loop; a rejected
\* cancel leaves the flags as they were and returns the error.  A cancellation
\* the backend reports while the call waits is silent: no callback, no status,
\* and the flag is cleared.
C19_FlagAfterAcceptedAsk ==
    /\ [][\A t \in Transfers :
            SyncCancelAsked(t) =>
                /\ hist'.asked.iflags = xfer[t].iflags
                /\ IF hist'.asked.r < 0
                   THEN /\ xfer'[t].iflags = xfer[t].iflags
                        /\ sync' = NoTransfer /\ hist'.ret = hist'.asked.r
                   ELSE /\ xfer'[t].iflags = xfer[t].iflags \cup {SYNC_CANCELLED}
                        /\ sync' = t]_vars
    /\ [][\A t \in Transfers :
            ReportedWhileWaiting(t) =>
                SilentlyCancelled(t) /\ SYNC_CANCELLED \notin xfer'[t].iflags]_vars

\* the backend has reported the cancellation of the transfer the synchronous
\* cancel waits for, silently, and the call is about to return
C19_Witness ==
    \E t \in Transfers :
        /\ sync = t /\ ~freed[t] /\ urb[t] = "none" /\ ~Linked(t)
        /\ Sub(t).report = "cancellation" /\ Sub(t).silent = 1 /\ Sub(t).callbacks = 0
        /\ SYNC_CANCELLED \notin xfer[t].iflags

\* the backend has reported a terminal outcome of the submission of t
Reported(t) == Sub(t).report \in {"completion", "cancellation"}

\* C20: while the wait loop keeps running, a call of
\* libusb_cancel_transfer_sync on t returns once the backend has reported a
\* terminal outcome of t, a natural completion as well as a cancellation.
C20_SyncCancelReturns ==
    \A t \in 1..NumTransfers : (sync = t /\ Reported(t)) ~> (sync = NoTransfer)

\* in this step the backend reports the natural completion of t, which bears
\* the TIMED_OUT latch and whose deadline has passed
CompletesAfterLatch(t) ==
    /\ urb[t] # "none" /\ TIMED_OUT \in xfer[t].iflags
    /\ timerisset(xfer[t].deadline)
    /\ ~timer_gt(xfer[t].deadline, TIMESPEC_TO_TIMEVAL(now))
    /\ Sub(t).report = "none" /\ hist'.submission[t].report = "completion"

\* C21: when the backend reports the natural completion of a transfer whose
\* deadline has passed and which bears the TIMED_OUT latch, the callback (if
\* one is set) is invoked exactly once, with the status of the completion
\* (COMPLETED, or ERROR for a short transfer with SHORT_NOT_OK) and not with
\* TIMED_OUT; a submission is delivered as TIMED_OUT only when the backend has
\* reported its cancellation.
C21_CompletionBeatsTimeout ==
    /\ [][\A t \in Transfers :
            CompletesAfterLatch(t) =>
                /\ hist'.submission[t].silent = 0
                /\ hist'.submission[t].callbacks = (IF xfer[t].callback THEN 1 ELSE 0)
                /\ hist'.submission[t].status \in
                      (IF SHORT_NOT_OK \in xfer[t].flags
                       THEN {"COMPLETED", "ERROR"} ELSE {"COMPLETED"})]_vars
    /\ [](\A t \in Transfers :
            Sub(t).status = "TIMED_OUT" => Sub(t).report = "cancellation")

\* the sweep latched the transfer and asked for its cancel, the backend then
\* reported its natural completion, and the callback ran once with COMPLETED
C21_Witness ==
    \E t \in Transfers :
        /\ Sub(t).tocancels = 1 /\ TIMED_OUT \in xfer[t].iflags
        /\ Sub(t).report = "completion" /\ Sub(t).callbacks = 1
        /\ Sub(t).status = "COMPLETED" /\ xfer[t].status = "COMPLETED"

\* the step is a call of libusb_submit_transfer on t that the backend accepts
SubmitAccepted(t) == urb[t] = "none" /\ urb'[t] = "pending"

\* C22: after a submit of t with timeout 0 the deadline of t is unset, also
\* when the transfer object was submitted with a non-zero timeout before;
\* after a submit with timeout > 0 the deadline is the monotonic time of the
\* submit plus the timeout in milliseconds.
C22_DeadlineFromTimeout ==
    [][\A t \in Transfers :
          SubmitAccepted(t) =>
              IF xfer'[t].timeout = 0
              THEN ~timerisset(xfer'[t].deadline)
              ELSE usecs(xfer'[t].deadline) =
                       usecs(TIMESPEC_TO_TIMEVAL(now)) + 1000 * xfer'[t].timeout]_vars

\* C23: a transfer that has just been submitted does not bear the TIMED_OUT
\* latch, whatever happened to the transfer object before; and when a
\* cancellation is reported for a submission for which the sweep requested no
\* cancel (and which was not cancelled synchronously), the status delivered is
\* CANCELLED, not TIMED_OUT.
C23_SubmitClearsLatch ==
    /\ [][\A t \in Transfers :
            SubmitAccepted(t) => TIMED_OUT \notin xfer'[t].iflags]_vars
    /\ [](\A t \in Transfers :
            Sub(t).report = "cancellation" /\ Sub(t).tocancels = 0 /\ Sub(t).silent = 0 =>
                Sub(t).status = "CANCELLED")

\* the step ran the sweep and the backend reaped nothing in it, so that the
\* sweep started from the state before the step, at the time after it
SweptOnly == hist'.swept /\ ~hist'.reaped

\* t is in flight, not latched, and its set deadline is not after time tv
Due(t, tv) ==
    /\ Linked(t) /\ TIMED_OUT \notin xfer[t].iflags
    /\ timerisset(xfer[t].deadline) /\ ~timer_gt(xfer[t].deadline, tv)

\* C24: a sweep latches TIMED_OUT on, and requests one backend cancel for,
\* exactly the in-flight transfers that are not latched and whose set deadline
\* is not after the current time; every other transfer (unset deadline, later
\* deadline, already latched) is left as it was; after any sweep no in-flight
\* transfer with a passed deadline is unlatched; and no submission ever gets
\* more than one timeout-induced cancel request.
C24_SweepLatchesExactlyTheDue ==
    /\ [][SweptOnly =>
            \A t \in Transfers :
                IF Due(t, TIMESPEC_TO_TIMEVAL(now'))
                THEN /\ xfer'[t] = [xfer[t] EXCEPT !.iflags = @ \cup {TIMED_OUT}]
                     /\ hist'.submission[t].tocancels = Sub(t).tocancels + 1
                     /\ urb'[t] \in {urb[t], "discarding"}
                ELSE /\ xfer'[t] = xfer[t]
                     /\ hist'.submission[t].tocancels = Sub(t).tocancels
                     /\ urb'[t] = urb[t]]_vars
    /\ [](hist.swept => \A t \in Transfers : ~Due(t, TIMESPEC_TO_TIMEVAL(now)))
    /\ [](\A t \in Transfers : Sub(t).tocancels <= 1)

\* after a sweep: one transfer latched with its one cancel requested, one
\* with a later deadline and one with no deadline, both untouched
C24_Witness ==
    /\ hist.swept
    /\ \E a, b, c \in Transfers :
          /\ Linked(a) /\ Linked(b) /\ Linked(c)
          /\ TIMED_OUT \in xfer[a].iflags /\ Sub(a).tocancels = 1
          /\ ~timer_gt(xfer[a].deadline, TIMESPEC_TO_TIMEVAL(now))
          /\ timer_gt(xfer[b].deadline, TIMESPEC_TO_TIMEVAL(now))
          /\ TIMED_OUT \notin xfer[b].iflags /\ Sub(b).tocancels = 0
          /\ ~timerisset(xfer[c].deadline)
          /\ TIMED_OUT \notin xfer[c].iflags /\ Sub(c).tocancels = 0

\* C25: while the event loop is driven and the backend does not withhold the
\* outcome of a transfer it accepted, every accepted submission with a
\* non-zero timeout has its terminal outcome delivered, also after the
\* backend rejected the cancel request of the sweep.
C25_TimedTransferTerminates ==
    \A t \in 1..NumTransfers :
        (urb[t] # "none" /\ xfer[t].timeout # 0) ~> Reported(t)

\* the sweep latched a transfer submitted with a timeout, the backend rejected
\* the cancel request, and the outcome of the transfer was delivered later
C25_Witness ==
    \E t \in Transfers :
        /\ xfer[t].timeout # 0 /\ TIMED_OUT \in xfer[t].iflags /\ Sub(t).tocancels = 1
        /\ urb[t] = "none" /\ ~Linked(t) /\ Reported(t)
        /\ Sub(t).callbacks = 1 /\ Sub(t).status = "COMPLETED"

\* the in-flight transfers that do not bear the TIMED_OUT latch
Unlatched == {t \in Transfers : Linked(t) /\ TIMED_OUT \notin xfer[t].iflags}

\* t is the first element of the in-flight list without the latch
FirstUnlatched(t) ==
    /\ t \in Unlatched
    /\ \A i, j \in 1..Len(flying_transfers) :
          flying_transfers[j] = t /\ i < j => flying_transfers[i] \notin Unlatched

\* C26: libusb_get_next_timeout returns 0 when no in-flight transfer is
\* without the latch (the list is empty or all are latched) or when the first
\* one without it has an unset deadline; otherwise it returns 1 with
\* tv = max(0, d - now) for the deadline d of that transfer, and no in-flight
\* transfer without the latch has a set deadline before d.
C26_NextTimeoutIsNearestDeadline ==
    LET g == libusb_get_next_timeout(State)
        cur == usecs(TIMESPEC_TO_TIMEVAL(now))
    IN  /\ Unlatched = {} => g.r = 0
        /\ \A t \in Transfers : FirstUnlatched(t) =>
              LET d == xfer[t].deadline
              IN  IF ~timerisset(d) THEN g.r = 0
                  ELSE /\ g.r = 1
                       /\ usecs(g.tv) = (IF usecs(d) > cur THEN usecs(d) - cur ELSE 0)
                       /\ \A u \in Unlatched :
                             timerisset(xfer[u].deadline) => usecs(d) <= usecs(xfer[u].deadline)

\* the head of the in-flight list is latched, another transfer behind it is
\* not and its deadline lies ahead, and a third has no deadline: the lookup
\* answers with the time left to that deadline
C26_Witness ==
    /\ Len(flying_transfers) = 3
    /\ TIMED_OUT \in xfer[flying_transfers[1]].iflags
    /\ FirstUnlatched(flying_transfers[2])
    /\ ~timerisset(xfer[flying_transfers[3]].deadline)
    /\ libusb_get_next_timeout(State).r = 1
    /\ usecs(libusb_get_next_timeout(State).tv) > 0
    /\ usecs(libusb_get_next_timeout(State).tv)
         = usecs(xfer[flying_transfers[2]].deadline) - usecs(TIMESPEC_TO_TIMEVAL(now))

\* the registered descriptors that ask for the events ev
Registered(ev) == {pollfds[i].fd : i \in {j \in 1..Len(pollfds) : ev \in pollfds[j].events}}

\* select() was called with the sets of the registry as it was at the call
SetsFromRegistry ==
    /\ hist'.poll.readfds = Registered(POLLIN)
    /\ hist'.poll.writefds = Registered(POLLOUT)
    /\ \A i \in 1..Len(pollfds) : pollfds[i].fd < hist'.poll.nfds

\* the nearest deadline of the scheduler has already expired
NearestExpired ==
    libusb_get_next_timeout(State).r = 1 /\ ~timerisset(libusb_get_next_timeout(State).tv)

\* min(user_tv, nearest deadline - now), the deadline term clamped at zero,
\* and user_tv when there is no deadline
MinOfUserAndDeadline(user_tv) ==
    LET g == libusb_get_next_timeout(State)
    IN  IF g.r = 1 /\ usecs(g.tv) < usecs(user_tv) THEN g.tv ELSE user_tv

\* C27 as stated: every invocation of poll_io builds the FD sets from the
\* registry and calls select() with min(user_tv, nearest deadline - now),
\* where an expired deadline counts as zero, and with user_tv when there is
\* no deadline.
C27_EveryPollSelectsAsStated ==
    [][hist'.poll.entered =>
         /\ hist'.poll.select # "none"
         /\ hist'.poll.select_timeout = MinOfUserAndDeadline(hist'.poll.user_tv)
         /\ SetsFromRegistry]_vars

\* C27: an invocation of poll_io that finds the nearest deadline expired runs
\* the sweep and returns without calling select() or the backend's event
\* handler; every other invocation builds the FD sets from the registry and
\* calls select() with min(user_tv, nearest deadline - now), and with user_tv
\* when there is no deadline.
C27_PollSelectsUnlessExpired ==
    [][hist'.poll.entered =>
         IF NearestExpired
         THEN hist'.poll.select = "none" /\ ~hist'.poll.handled /\ hist'.swept
         ELSE /\ hist'.poll.select # "none"
              /\ hist'.poll.select_timeout = MinOfUserAndDeadline(hist'.poll.user_tv)
              /\ SetsFromRegistry]_vars

\* select() was called with a deadline nearer than the caller's timeout, on
\* the read and write sets of a registry of two descriptors, and slept until
\* the deadline
C27_Witness ==
    /\ hist.poll.select = "timeout"
    /\ usecs(hist.poll.select_timeout) > 0
    /\ usecs(hist.poll.select_timeout) < usecs(hist.poll.user_tv)
    /\ Len(pollfds) = 2
    /\ hist.poll.readfds # {} /\ hist.poll.writefds # {}
    /\ hist.poll.readfds # hist.poll.writefds
    /\ hist.poll.nfds = 6

\* C28: after select() timed out the sweep has run, so no unlatched transfer
\* is left past its deadline, and the backend's event handler has not; after
\* an interrupted select() poll_io returns 0 and neither has run; after any
\* other failure of select() it returns the error and neither has run; after
\* a positive result the event handler has run, and then the sweep, unless
\* the handler failed, whose result is then returned without a sweep.
C28_PollDispatchesOnSelect ==
    /\ hist.poll.select = "timeout" =>
          /\ hist.swept /\ ~hist.poll.handled /\ hist.ret = 0
          /\ \A t \in Transfers : ~Due(t, TIMESPEC_TO_TIMEVAL(now))
    /\ hist.poll.select = "EINTR" =>
          hist.ret = 0 /\ ~hist.poll.handled /\ ~hist.swept
    /\ hist.poll.select = "error" =>
          hist.ret < 0 /\ ~hist.poll.handled /\ ~hist.swept
    /\ hist.poll.select = "ready" =>
          /\ hist.poll.handled
          /\ IF hist.poll.her < 0
             THEN hist.ret = hist.poll.her /\ ~hist.swept
             ELSE hist.ret = 0 /\ hist.swept

\* select() reported ready descriptors, the backend's handler reaped a
\* transfer and failed, and poll_io returned the failure without a sweep
\* although a deadline had passed
C28_Witness ==
    /\ hist.poll.select = "ready" /\ hist.poll.handled /\ hist.reaped
    /\ hist.poll.her < 0 /\ hist.ret < 0 /\ ~hist.swept

\* C29: a libusb_submit_transfer leaves the byte count of the transfer at 0;
\* when the backend rejected the submission it returned the backend's error,
\* the transfer is not in the in-flight list and the backend does not hold
\* it; the transfer is in the list only when the backend accepted it.
C29_SubmitResetsAndLinksOnAccept ==
    \A t \in Transfers : hist.submitted.t = t =>
        /\ xfer[t].transferred = 0
        /\ IF hist.submitted.r < 0
           THEN hist.submitted.ret = hist.submitted.r /\ ~Linked(t) /\ urb[t] = "none"
           ELSE hist.submitted.ret = 0 /\ Linked(t) /\ urb[t] # "none"

\* a transfer that had completed with bytes transferred was submitted again,
\* the backend rejected it, and it is neither counted nor linked
C29_Witness ==
    \E t \in Transfers :
        /\ hist.submitted.t = t /\ hist.submitted.r < 0 /\ hist.ret = hist.submitted.r
        /\ xfer[t].actual_length > 0 /\ xfer[t].transferred = 0
        /\ ~Linked(t) /\ urb[t] = "none"

\* libusb_cancel_transfer_sync(t) returns an error in this step: the backend
\* rejects the cancel request, or a libusb_poll of the wait loop fails
SyncCancelFails(t) ==
    \/ sync = NoTransfer /\ sync' = NoTransfer
         /\ hist'.asked.t = t /\ hist'.asked.r < 0 /\ hist'.ret < 0
    \/ sync = t /\ sync' = NoTransfer /\ hist'.ret < 0

\* C30: when libusb_cancel_transfer_sync returns an error the transfer does
\* not bear the SYNC_CANCELLED flag, and outside a synchronous cancel no
\* terminal event of a transfer is swallowed without its callback.
C30_FailedSyncCancelLeavesNoFlag ==
    /\ [][\A t \in Transfers :
            SyncCancelFails(t) /\ ~freed'[t] => SYNC_CANCELLED \notin xfer'[t].iflags]_vars
    /\ [][\A t \in Transfers :
            sync = NoTransfer /\ sync' = NoTransfer =>
                hist'.submission[t].silent <= hist.submission[t].silent]_vars

\* C31: a transfer whose memory has been freed, by the completion handler
\* because FREE_TRANSFER is set or by the application, is not linked in the
\* in-flight list, also when its callback submitted it again.
C31_FreedTransferIsUnlinked ==
    \A t \in Transfers : freed[t] => ~Linked(t)

\* the rank of a lock in the order registry > handle table > handle > device
LockRank(l) ==
    CASE l = "usb_devs_lock" -> 4
      [] l = "usbi_open_devs_lock" -> 3
      [] l = "handle->lock" -> 2
      [] l = "dev->lock" -> 1

\* the thread takes its next step, which acquires the lock l
Takes(t, l) == l \in Acquires(t) /\ thr'[t] # thr[t]

\* C32: a thread that acquires a lock holds no lock that comes after it in the
\* order registry > handle table > handle > device: the registry lock is not
\* acquired while the handle-table, a handle or a device lock is held, nor
\* the handle-table lock while a handle or a device lock is held.
C32_LocksTakenInOrder ==
    [][\A t \in Threads :
         \A l \in {"usb_devs_lock", "usbi_open_devs_lock", "handle->lock", "dev->lock"} :
            Takes(t, l) => \A h \in Held(t) : LockRank(h) > LockRank(l)]_vars

\* C33: with libusb_set_interface_alt_setting and libusb_release_interface
\* running concurrently on one handle, usbi_backend->set_interface_altsetting
\* is never invoked for an interface whose claimed bit the release has
\* already cleared: when the backend has just been called, the bit is set.
C33_AltSettingOnlyWhileClaimed ==
    (ifobs.last.op = "set_alt" /\ ifobs.last.called)
        => hdl[1].claimed_interfaces \cap ShiftedOne(ifobs.last.n) # {}

\* how many entries of the list of pollfds have the descriptor fd
Entries(list, fd) == Cardinality({i \in 1..Len(list) : list[i].fd = fd})

\* C34: libusb_get_pollfds returns exactly the descriptors added and not yet
\* removed; an add that succeeds calls the added notifier that is set once,
\* with (fd, events); a remove of a descriptor that is in the set calls the
\* removed notifier that is set once, with fd; a remove of a descriptor that
\* is not in the set leaves the registry as it was and calls no notifier.
C34_RegistryMirrorsAddsAndRemoves ==
    LET c == hist.fdcall
    IN  /\ (c.op = "get" /\ ~c.null) =>
              \A fd \in Fds : Entries(c.list, fd) = CopiesIn(fd, hist.watched)
        /\ (c.op = "add" /\ hist.ret = 0 /\ notifiers.fd_added_cb # NULL) =>
              c.notified = <<[cb |-> notifiers.fd_added_cb, args |-> <<c.fd, c.events>>]>>
        /\ (c.op = "remove" /\ c.present /\ notifiers.fd_removed_cb # NULL) =>
              c.notified = <<[cb |-> notifiers.fd_removed_cb, args |-> <<c.fd>>]>>
        /\ (c.op = "remove" /\ ~c.present) => (pollfds = c.before /\ c.notified = <<>>)

\* a remove of a descriptor that had been added twice: one entry is left, and
\* the removed notifier that is set was called
C34_Witness ==
    /\ hist.fdcall.op = "remove" /\ hist.fdcall.present
    /\ Entries(hist.fdcall.before, hist.fdcall.fd) = 2
    /\ Entries(pollfds, hist.fdcall.fd) = 1
    /\ CopiesIn(hist.fdcall.fd, hist.watched) = 1
    /\ notifiers.fd_removed_cb # NULL /\ Len(hist.fdcall.notified) = 1

\* a timeval or the timeval of a timespec, in microseconds
Microseconds(sec, usec) == sec * USEC_PER_SEC + usec

\* C35: the deadline that an accepted libusb_submit_transfer stores for a
\* timeout other than 0 is a normalised time: its microseconds are at most
\* 999999 (its nanoseconds below 1000000000), and it equals the monotonic
\* time of the submission plus the timeout.
C35_StoredDeadlineIsNormalised ==
    \A t \in Transfers :
        (hist.submitted.t = t /\ hist.submitted.ret = 0 /\ xfer[t].timeout # 0) =>
            /\ xfer[t].deadline[2] >= 0
            /\ xfer[t].deadline[2] <= USEC_PER_SEC - 1
            /\ Microseconds(xfer[t].deadline[1], xfer[t].deadline[2])
                  = Microseconds(now[1], now[2] \div 1000) + xfer[t].timeout * 1000

====
